---- MODULE Spec2Model ----
(***************************************************************************)
(* The aggregation pipeline of the Celigo U scraper popup: combineResults  *)
(* folds an ordered list of source responses into one document, removes    *)
(* duplicates by content hash, collapses the hotspot groups and derives    *)
(* the statistics.  Text is modelled as a sequence of characters so that   *)
(* substring windows, joins and lengths are computed as the code does.     *)
(* ScrapeSpec is the popup around it: scrapeContent awaiting its five      *)
(* source calls one after another, this.currentData, the message area and  *)
(* copyToClipboard.                                                        *)
(***************************************************************************)
EXTENDS Integers, Sequences, FiniteSets, TLC

\* One call of combineResults: the list it is handed, its position, and
\* combined.content after the merge loop, after the deduplication and at
\* the return.
VARIABLES responses, pc, merged, deduped, combined

\* The popup object: the position of scrapeContent, its five result variables,
\* the source calls settled so far, this.currentData, the message area and the
\* text last written to the clipboard.
VARIABLES step, locals, settled, currentData, message, clipboard

\* The loading indicator, the disabled flag of the scrape button, and the
\* InjectionResult list chrome.scripting.executeScript resolved with.
VARIABLES loading, scrapeBtnDisabled, injectionResults

\* A label handed to the label helpers, and what each returned for it
VARIABLES rawLabel, excluded, parsed

\* The background worker: the stored history, the saveToHistory handlers
\* between their first await and their response, and the responses sent.
VARIABLES storage, handlers, answers

popupVars == <<step, locals, settled, currentData, message, clipboard,
               loading, scrapeBtnDisabled, injectionResults>>

labelVars == <<rawLabel, excluded, parsed>>

backgroundVars == <<storage, handlers, answers>>

\* What the pipeline and the popup leave alone
otherVars == <<labelVars, backgroundVars>>

vars == <<responses, pc, merged, deduped, combined,
          step, locals, settled, currentData, message, clipboard,
          loading, scrapeBtnDisabled, injectionResults,
          rawLabel, excluded, parsed, storage, handlers, answers>>

(* ------------------------------ bounds -------------------------------- *)

\* Longest list of source results handed to combineResults.
MaxSources == 3

\* saveToHistory messages the background worker receives.
MaxSaves == 4

(* ------------------------- program constants -------------------------- *)

HashWindow == 200
MinHashLength == 5
PointWindow == 100
MinPointLength == 5
TextWindow == 100
ListWindow == 150
QuestionWindow == 100
MinQuestionLength == 10

(* ------------------------------- text --------------------------------- *)

Min(a, b) == IF a < b THEN a ELSE b

\* n copies of the character c
Rep(c, n) == [i \in 1..n |-> c]

\* String.prototype.substring(0, n)
substring(s, n) == SubSeq(s, 1, Min(n, Len(s)))

\* Array.prototype.join(sep) on an array of strings
RECURSIVE join(_, _)
join(strs, sep) ==
    IF Len(strs) = 0 THEN <<>>
    ELSE IF Len(strs) = 1 THEN strs[1]
    ELSE strs[1] \o sep \o join(Tail(strs), sep)

UpperCase == {"A", "B", "C", "D", "E", "F", "G", "H", "I", "J", "K", "L", "M",
              "N", "O", "P", "Q", "R", "S", "T", "U", "V", "W", "X", "Y", "Z"}

lowerOf == [c \in UpperCase |->
    CASE c = "A" -> "a" [] c = "B" -> "b" [] c = "C" -> "c" [] c = "D" -> "d"
      [] c = "E" -> "e" [] c = "F" -> "f" [] c = "G" -> "g" [] c = "H" -> "h"
      [] c = "I" -> "i" [] c = "J" -> "j" [] c = "K" -> "k" [] c = "L" -> "l"
      [] c = "M" -> "m" [] c = "N" -> "n" [] c = "O" -> "o" [] c = "P" -> "p"
      [] c = "Q" -> "q" [] c = "R" -> "r" [] c = "S" -> "s" [] c = "T" -> "t"
      [] c = "U" -> "u" [] c = "V" -> "v" [] c = "W" -> "w" [] c = "X" -> "x"
      [] c = "Y" -> "y" [] c = "Z" -> "z"]

\* String.prototype.toLowerCase()
toLowerCase(s) == [i \in 1..Len(s) |-> IF s[i] \in UpperCase THEN lowerOf[s[i]] ELSE s[i]]

\* String.prototype.includes(sub)
includes(s, sub) ==
    \E i \in 0..(Len(s) - Len(sub)) : SubSeq(s, i + 1, i + Len(sub)) = sub

\* a || b on strings: the first one that is not empty
Or(a, b) == IF a # <<>> THEN a ELSE b

(* --------------------------- filter lists ----------------------------- *)

FALSE_POSITIVE_KC == <<
    <<"y", "o", "u", " ", "a", "r", "e", " ", "o", "f", "f", "l", "i", "n", "e">>,
    <<"t", "r", "y", "i", "n", "g", " ", "t", "o", " ", "r", "e", "c", "o", "n", "n", "e", "c", "t">>,
    <<"l", "o", "a", "d", "i", "n", "g">>,
    <<"p", "l", "e", "a", "s", "e", " ", "w", "a", "i", "t">>,
    <<"e", "r", "r", "o", "r", " ", "o", "c", "c", "u", "r", "r", "e", "d">>,
    <<"b", "e", "g", "i", "n", " ", "b", "y">>,
    <<"s", "e", "l", "e", "c", "t", " ", "e", "i", "t", "h", "e", "r", " ", "o", "p", "t", "i", "o", "n">> >>

(* ------------------------------ items --------------------------------- *)

\* A point of a hotspot group; a field the object lacks is the empty text.
BlankPoint == [index |-> 0, title |-> <<>>, description |-> <<>>,
               label |-> <<>>, rawLabel |-> <<>>]

\* A content item; hasPoints is (item.points && Array.isArray(item.points)).
BlankItem == [id |-> "", content |-> <<>>, question |-> <<>>, title |-> <<>>,
              description |-> <<>>, label |-> <<>>, front |-> <<>>, back |-> <<>>,
              hasPoints |-> FALSE, points |-> <<>>, items |-> <<>>]

(* -------------------------- generateContentHash ------------------------ *)

pointText(p) == Or(p.title, Or(p.description, p.label))

\* A content hash that keeps the whole text
generateContentHashUntruncated(item) ==
    IF item.hasPoints
    THEN LET texts == [i \in 1..Len(item.points) |-> pointText(item.points[i])]
         IN  join(SelectSeq(texts, LAMBDA s : Len(s) > 0), <<"|">>)
    ELSE Or(item.content, Or(item.question, Or(item.title,
                Or(item.description, item.label))))

\* A content hash that falls back to the front of a flip card
generateContentHashOrFront(item) ==
    IF item.hasPoints
    THEN LET texts == [i \in 1..Len(item.points) |-> pointText(item.points[i])]
             pointContent == join(SelectSeq(texts, LAMBDA s : Len(s) > 0), <<"|">>)
         IN  substring(pointContent, HashWindow)
    ELSE LET content == Or(item.content, Or(item.question, Or(item.title,
                            Or(item.description, Or(item.label, item.front)))))
         IN  substring(content, HashWindow)

generateContentHash(item) ==
    IF item.hasPoints
    THEN LET texts == [i \in 1..Len(item.points) |-> pointText(item.points[i])]
             pointContent == join(SelectSeq(texts, LAMBDA s : Len(s) > 0), <<"|">>)
         IN  substring(pointContent, HashWindow)
    ELSE LET content == Or(item.content, Or(item.question, Or(item.title,
                            Or(item.description, item.label))))
         IN  substring(content, HashWindow)

(* ------------------------- documents and sources ----------------------- *)

\* The keys combined.metadata starts with, and the keys that the objects
\* merged into it can add
MetadataFields == {"url", "course", "lesson", "path"}

MetaKeys == {"scrapedAt"} \cup MetadataFields \cup {"error"}

ArrayKeys == {"flipCards", "hotspots", "knowledgeChecks", "accordions", "tabs",
              "images", "textBlocks", "lists", "tables", "videos"}

ContentKeys == ArrayKeys \cup {"rawText"}

BlankMeta == [k \in MetaKeys |-> <<>>]

\* The value a content object holds under one key: no such key, an array of
\* items, or a string.
NoValue == [kind |-> "none", array |-> <<>>, string |-> <<>>]
ArrayOf(items) == [kind |-> "array", array |-> items, string |-> <<>>]
StringOf(text) == [kind |-> "string", array |-> <<>>, string |-> text]

\* JavaScript truthiness of a value found under a key
truthy(v) == v.kind = "array" \/ (v.kind = "string" /\ v.string # <<>>)

\* .length of a value found under a key
lengthOf(v) == IF v.kind = "array" THEN Len(v.array) ELSE Len(v.string)

\* The time combineResults reads for scrapedAt
Now == <<"T", "1">>

\* The literal `combined` that combineResults starts from
initialMetadata == [BlankMeta EXCEPT !.scrapedAt = Now]

initialContent == [k \in ContentKeys |->
                     IF k = "rawText" THEN StringOf(<<>>) ELSE ArrayOf(<<>>)]

\* One entry of the list handed to combineResults.  absent: null or
\* undefined; success: "true", "false", or "undefined" when the object has
\* no such property; top: the url/course/lesson/path properties of the object
\* itself (and its error message); hasData, hasMetadata, hasContent, hasContentMetadata: whether
\* response.data, response.data.metadata, response.data.content and
\* response.data.content.metadata are there.
BlankResponse == [absent |-> FALSE, success |-> "undefined",
                  top |-> BlankMeta, hasData |-> FALSE,
                  hasMetadata |-> FALSE, metadata |-> BlankMeta,
                  hasContent |-> FALSE,
                  hasContentMetadata |-> FALSE, contentMetadata |-> BlankMeta,
                  content |-> [k \in ContentKeys |-> NoValue],
                  direct |-> [k \in ContentKeys |-> NoValue]]

(* ---------------------------- combineResults --------------------------- *)

\* A merge in which a later non-empty value replaces the one held
mergeMetadataKeepLast(acc, src) ==
    [k \in MetaKeys |-> IF src[k] # <<>> THEN src[k] ELSE acc[k]]

\* Object.keys(src).forEach(key => { if (src[key] && !acc[key]) acc[key] = src[key] })
mergeMetadata(acc, src) ==
    [k \in MetaKeys |-> IF src[k] # <<>> /\ acc[k] = <<>> THEN src[k] ELSE acc[k]]

\* A merge that puts the items of a source before the ones held
mergeValuePrepend(acc, src) ==
    IF src.kind = "none" THEN acc
    ELSE IF acc.kind = "array" /\ src.kind = "array"
         THEN ArrayOf(src.array \o acc.array)
    ELSE IF truthy(src) THEN src
    ELSE acc

\* The two branches that merge one content key of a source
mergeValue(acc, src) ==
    IF src.kind = "none" THEN acc
    ELSE IF acc.kind = "array" /\ src.kind = "array"
         THEN ArrayOf(acc.array \o src.array)
    ELSE IF truthy(src) THEN src
    ELSE acc

\* A plain-metadata condition that does not look for url, course or lesson
isPlainMetadataAnyObject(r) == ~r.absent /\ r.success # "true" /\ ~r.hasData

\* The condition of the plain-metadata branch
isPlainMetadata(r) ==
    /\ ~r.absent /\ r.success # "true" /\ ~r.hasData
    /\ (r.top.url # <<>> \/ r.top.course # <<>> \/ r.top.lesson # <<>>)

\* The condition of the envelope branch
isEnvelope(r) == ~r.absent /\ r.success = "true" /\ r.hasData

\* A merge that takes the category arrays found directly under data when
\* data has no content key
mergeResponseDataAsContent(acc, r) ==
    IF isPlainMetadata(r)
    THEN [acc EXCEPT !.metadata = mergeMetadata(@, r.top)]
    ELSE IF isEnvelope(r)
    THEN LET m1 == IF r.hasMetadata
                   THEN mergeMetadata(acc.metadata, r.metadata)
                   ELSE acc.metadata
             m2 == IF r.hasContent /\ r.hasContentMetadata
                   THEN mergeMetadata(m1, r.contentMetadata)
                   ELSE m1
             c  == IF r.hasContent
                   THEN [k \in ContentKeys |-> mergeValue(acc.content[k], r.content[k])]
                   ELSE [k \in ContentKeys |-> mergeValue(acc.content[k], r.direct[k])]
         IN  [metadata |-> m2, content |-> c]
    ELSE acc

\* The body of responses.forEach for one response
mergeResponse(acc, r) ==
    IF isPlainMetadata(r)
    THEN [acc EXCEPT !.metadata = mergeMetadata(@, r.top)]
    ELSE IF isEnvelope(r)
    THEN LET m1 == IF r.hasMetadata
                   THEN mergeMetadata(acc.metadata, r.metadata)
                   ELSE acc.metadata
             m2 == IF r.hasContent /\ r.hasContentMetadata
                   THEN mergeMetadata(m1, r.contentMetadata)
                   ELSE m1
             c  == IF r.hasContent
                   THEN [k \in ContentKeys |-> mergeValue(acc.content[k], r.content[k])]
                   ELSE acc.content
         IN  [metadata |-> m2, content |-> c]
    ELSE acc

\* responses.forEach(...) over the whole list, from the initial accumulator
RECURSIVE mergeAll(_, _)
mergeAll(acc, rs) ==
    IF rs = <<>> THEN acc ELSE mergeAll(mergeResponse(acc, Head(rs)), Tail(rs))

mergeStage(rs) == mergeAll([metadata |-> initialMetadata, content |-> initialContent], rs)

\* A filter callback that never looks into `seen`
keepHashNoSeen(hash, seen) == Len(hash) >= MinHashLength

\* A filter callback that accepts a hash of any length
keepHashNoLength(hash, seen) == hash \notin seen

\* The filter callback of the deduplication: keep an item with this hash?
keepHash(hash, seen) == ~(Len(hash) < MinHashLength) /\ hash \notin seen

RECURSIVE dedupFilter(_, _)
dedupFilter(items, seen) ==
    IF items = <<>> THEN <<>>
    ELSE LET hash == generateContentHash(Head(items))
         IN  IF keepHash(hash, seen)
             THEN <<Head(items)>> \o dedupFilter(Tail(items), seen \cup {hash})
             ELSE dedupFilter(Tail(items), seen)

\* A deduplication that compares each item with the item before it only
RECURSIVE dedupAdjacentFrom(_, _)
dedupAdjacentFrom(items, last) ==
    IF items = <<>> THEN <<>>
    ELSE LET hash == generateContentHash(Head(items))
         IN  IF Len(hash) >= MinHashLength /\ hash # last
             THEN <<Head(items)>> \o dedupAdjacentFrom(Tail(items), hash)
             ELSE dedupAdjacentFrom(Tail(items), hash)

dedupAdjacent(items) == dedupAdjacentFrom(items, <<>>)

\* combined.content[key].filter(...) with a fresh `seen`
dedupItems(items) == dedupFilter(items, {})

\* Object.keys(combined.content).forEach(...) of the deduplication
dedupStage(content) ==
    [k \in ContentKeys |->
        IF content[k].kind = "array"
        THEN ArrayOf(dedupItems(content[k].array))
        ELSE content[k]]

\* The points of every group that has a points array, in order
RECURSIVE allPointsOf(_)
allPointsOf(groups) ==
    IF groups = <<>> THEN <<>>
    ELSE (IF Head(groups).hasPoints THEN Head(groups).points ELSE <<>>)
         \o allPointsOf(Tail(groups))

\* meaningfulContent of a point
meaningfulContent(point) ==
    point.title \o <<"|">> \o substring(Or(point.description, point.rawLabel), PointWindow)

\* An index that is left as the source gave it
newIndexKept(point, n) == point.index

\* The index given to a point pushed when n points are already collected
newIndex(point, n) == n

\* The inner forEach of the hotspot merge: allHotspotPoints after `points`
RECURSIVE collectPoints(_, _, _)
collectPoints(points, seenPointHashes, allHotspotPoints) ==
    IF points = <<>> THEN allHotspotPoints
    ELSE LET point == Head(points)
             key == meaningfulContent(point)
         IN  IF Len(key) > MinPointLength /\ key \notin seenPointHashes
             THEN collectPoints(Tail(points), seenPointHashes \cup {key},
                      Append(allHotspotPoints,
                             [point EXCEPT !.index = newIndex(point, Len(allHotspotPoints))]))
             ELSE collectPoints(Tail(points), seenPointHashes, allHotspotPoints)

\* The replacement of content.hotspots by the single combined group
collapseHotspots(hotspots) ==
    LET allHotspotPoints == collectPoints(allPointsOf(hotspots), {}, <<>>)
    IN  IF Len(allHotspotPoints) > 0
        THEN << [BlankItem EXCEPT !.id = "hotspots-combined",
                                  !.hasPoints = TRUE,
                                  !.points = allHotspotPoints] >>
        ELSE <<>>

\* A text block filter that keeps every block
textFilterKeepAll(blocks, textSeen) == blocks

\* textBlocks.filter(...): first block of each 100-character content prefix
RECURSIVE textFilter(_, _)
textFilter(blocks, textSeen) ==
    IF blocks = <<>> THEN <<>>
    ELSE LET contentHash == substring(Head(blocks).content, TextWindow)
         IN  IF contentHash \in textSeen
             THEN textFilter(Tail(blocks), textSeen)
             ELSE <<Head(blocks)>> \o textFilter(Tail(blocks), textSeen \cup {contentHash})

\* lists.filter(...): first list of each 150-character prefix of its joined items
RECURSIVE listFilter(_, _)
listFilter(lists, listSeen) ==
    IF lists = <<>> THEN <<>>
    ELSE LET listHash == substring(join(Head(lists).items, <<"|">>), ListWindow)
         IN  IF listHash \in listSeen
             THEN listFilter(Tail(lists), listSeen)
             ELSE <<Head(lists)>> \o listFilter(Tail(lists), listSeen \cup {listHash})

\* A system-message test that matches nothing
isFalsePositiveNever(question) == FALSE

\* FALSE_POSITIVE_KC.some(fp => lower.includes(fp))
isFalsePositive(question) ==
    LET lower == toLowerCase(question)
    IN  \E i \in 1..Len(FALSE_POSITIVE_KC) : includes(lower, FALSE_POSITIVE_KC[i])

\* knowledgeChecks.filter(...)
RECURSIVE kcFilter(_, _)
kcFilter(kcs, kcSeen) ==
    IF kcs = <<>> THEN <<>>
    ELSE LET kc == Head(kcs)
             kcHash == substring(kc.question, QuestionWindow)
         IN  IF kc.question = <<>> \/ Len(kc.question) < MinQuestionLength
             THEN kcFilter(Tail(kcs), kcSeen)
             ELSE IF isFalsePositive(kc.question)
             THEN kcFilter(Tail(kcs), kcSeen)
             ELSE IF kcHash \in kcSeen
             THEN kcFilter(Tail(kcs), kcSeen)
             ELSE <<kc>> \o kcFilter(Tail(kcs), kcSeen \cup {kcHash})

\* The cleanup after the deduplication: hotspots, text blocks, lists, checks
cleanupStage(content) ==
    [k \in ContentKeys |->
        CASE k = "hotspots" -> ArrayOf(collapseHotspots(content[k].array))
          [] k = "textBlocks" -> ArrayOf(textFilter(content[k].array, {}))
          [] k = "lists" -> ArrayOf(listFilter(content[k].array, {}))
          [] k = "knowledgeChecks" -> ArrayOf(kcFilter(content[k].array, {}))
          [] OTHER -> content[k]]

\* forEach and filter exist on arrays only: a string under one of these keys
\* makes the cleanup throw a TypeError
cleanupThrows(content) ==
    \E k \in {"hotspots", "textBlocks", "lists", "knowledgeChecks"} :
        content[k].kind # "array"

\* Sum of the counts of a set of keys
RECURSIVE sumOver(_, _)
sumOver(counts, keys) ==
    IF keys = {} THEN 0
    ELSE LET k == CHOOSE x \in keys : TRUE
         IN  counts[k] + sumOver(counts, keys \ {k})

\* A total that leaves the hotspot count out
totalOfSkippingHotspots(counts) == sumOver(counts, ArrayKeys \ {"hotspots"})

\* Object.values(statistics).filter(number).reduce(+): totalItems is 0 then
totalOf(counts) == 0 + sumOver(counts, ArrayKeys)

\* combined.statistics
statisticsOf(content) ==
    LET counts == [k \in ArrayKeys |-> lengthOf(content[k])]
    IN  [k \in ArrayKeys \cup {"totalItems"} |->
            IF k = "totalItems" THEN totalOf(counts) ELSE counts[k]]

NoStatistics == [k \in ArrayKeys \cup {"totalItems"} |-> 0]

\* What a call of combineResults gives: the document, or a thrown TypeError
combineResults(rs) ==
    LET acc == mergeStage(rs)
        unique == dedupStage(acc.content)
    IN  IF cleanupThrows(unique)
        THEN [threw |-> TRUE, metadata |-> acc.metadata, content |-> unique,
              statistics |-> NoStatistics]
        ELSE LET final == cleanupStage(unique)
             IN  [threw |-> FALSE, metadata |-> acc.metadata, content |-> final,
                  statistics |-> statisticsOf(final)]

(* ------------------------------ source data ---------------------------- *)

\* Two 250-character texts equal in their first 210 characters
Long250A == Rep("a", 210) \o Rep("b", 40)
Long250B == Rep("a", 210) \o Rep("c", 40)

\* Two 150-character texts equal in their first 120 characters
Mid150A == Rep("m", 120) \o Rep("p", 30)
Mid150B == Rep("m", 120) \o Rep("q", 30)

\* Two 250-character questions equal in their first 210 characters that
\* carry a system message
LoadingA == <<"L", "o", "a", "d", "i", "n", "g", " ">> \o Rep("z", 202) \o Rep("b", 40)
LoadingB == <<"L", "o", "a", "d", "i", "n", "g", " ">> \o Rep("z", 202) \o Rep("c", 40)

TextBlock(id, content) == [BlankItem EXCEPT !.id = id, !.content = content]

Question(id, question) == [BlankItem EXCEPT !.id = id, !.question = question]

\* The hotspot shape of the main content script: a label and a content
Marker(id, label, content) ==
    [BlankItem EXCEPT !.id = id, !.label = label, !.content = content]

FlipCard(id, front, back) == [BlankItem EXCEPT !.id = id, !.front = front, !.back = back]

\* The accordion shape of the main content script: a header and a content
Accordion(id, content) == [BlankItem EXCEPT !.id = id, !.content = content]

ListBlock(id, items) == [BlankItem EXCEPT !.id = id, !.items = items]

\* The point shape of the injected script
Point(index, title, description) ==
    [BlankPoint EXCEPT !.index = index, !.title = title, !.description = description,
                       !.rawLabel = title \o description]

Group(id, points) == [BlankItem EXCEPT !.id = id, !.hasPoints = TRUE, !.points = points]

PAlpha == <<<<"A", "l", "p", "h", "a">>, <<"T", "h", "e", " ", "a", "l", "p", "h", "a", " ", "p", "a", "r", "t">>>>
PBravo == <<<<"B", "r", "a", "v", "o">>, <<"T", "h", "e", " ", "b", "r", "a", "v", "o", " ", "p", "a", "r", "t">>>>
PGamma == <<<<"G", "a", "m", "m", "a">>, <<"T", "h", "e", " ", "g", "a", "m", "m", "a", " ", "p", "a", "r", "t">>>>
PDelta == <<<<"D", "e", "l", "t", "a">>, <<"T", "h", "e", " ", "d", "e", "l", "t", "a", " ", "p", "a", "r", "t">>>>
POmega == <<<<"O", "m", "e", "g", "a">>, <<"T", "h", "e", " ", "o", "m", "e", "g", "a", " ", "p", "a", "r", "t">>>>

\* Groups of 3 and of 4 points that share Bravo and Gamma
Group3 == Group("injected-lg-0", << Point(0, PAlpha[1], PAlpha[2]),
                           Point(1, PBravo[1], PBravo[2]),
                           Point(2, PGamma[1], PGamma[2]) >>)

Group4 == Group("injected-lg-0", << Point(0, PBravo[1], PBravo[2]),
                                    Point(1, PGamma[1], PGamma[2]),
                                    Point(2, PDelta[1], PDelta[2]),
                                    Point(3, POmega[1], POmega[2]) >>)

\* Two groups of one point each: the same title, different descriptions
GroupStatus1 == Group("injected-lg-1", << Point(0, <<"S", "t", "a", "t", "u", "s">>, <<"T", "h", "i", "s", " ", "s", "h", "o", "w", "s", " ", "t", "h", "e", " ", "s", "t", "a", "t", "e">>) >>)
GroupStatus2 == Group("injected-lg-1", << Point(0, <<"S", "t", "a", "t", "u", "s">>, <<"Y", "o", "u", " ", "c", "a", "n", " ", "c", "h", "a", "n", "g", "e", " ", "i", "t">>) >>)

\* A group that holds the same point twice
GroupTwice == Group("injected-lg-0", << Point(0, <<"I", "D">>, <<"T", "h", "e", " ", "i", "d", "e", "n", "t", "i", "f", "i", "e", "r">>),
                                        Point(1, <<"I", "D">>, <<"T", "h", "e", " ", "i", "d", "e", "n", "t", "i", "f", "i", "e", "r">>) >>)

\* null or undefined: the source call failed or gave nothing
AbsentResponse == [BlankResponse EXCEPT !.absent = TRUE]

\* { success: false, error: ... }
FailedResponse ==
    [BlankResponse EXCEPT !.success = "false",
                          !.top = [BlankMeta EXCEPT !.error = <<"N", "o", " ", "a", "c", "t", "i", "v", "e", " ", "t", "a", "b">>]]

\* The plain metadata object of the main frame
PlainMetadata1 ==
    [BlankResponse EXCEPT !.top = [BlankMeta EXCEPT !.url = <<"U", "1">>, !.lesson = <<"L", "1">>]]

PlainMetadata2 ==
    [BlankResponse EXCEPT !.top = [BlankMeta EXCEPT !.url = <<"U", "2">>, !.course = <<"Y">>,
                                                    !.path = <<"P", "2">>]]

\* { success: true, data: { metadata, content } } of scrapeMainPage
MainResponse ==
    [BlankResponse EXCEPT
        !.success = "true", !.hasData = TRUE,
        !.hasMetadata = TRUE,
        !.metadata = [BlankMeta EXCEPT !.url = <<"U", "3">>, !.scrapedAt = <<"T", "0">>, !.course = <<"X">>],
        !.hasContent = TRUE,
        !.content = [k \in ContentKeys |->
            CASE k = "textBlocks" -> ArrayOf(<< TextBlock("main-text-0", Long250A),
                                                TextBlock("main-text-1", Mid150A) >>)
              [] k = "hotspots" ->
                    ArrayOf(<< Marker("hotspot-0", <<"M", "a", "r", "k", "e", "r", " ", "o", "n", "e">>, <<>>) >>)
              [] k = "knowledgeChecks" ->
                    ArrayOf(<< Question("kc-0", <<"W", "h", "a", "t", " ", "i", "s", " ", "M", "F", "A", " ", "u", "s", "e", "d", " ", "f", "o", "r", "?">>),
                               Question("kc-1", LoadingA) >>)
              [] k = "accordions" ->
                    ArrayOf(<< Accordion("accordion-0", Long250A),
                               Accordion("accordion-1", <<"P", "a", "n", "e", "l", " ", "b", "o", "d", "y", " ", "o", "n", "e">>) >>)
              [] k = "rawText" -> NoValue
              [] OTHER -> ArrayOf(<<>>)]]

\* { success: true, data: { content } } of scrapeIframe
IframeResponse ==
    [BlankResponse EXCEPT
        !.success = "true", !.hasData = TRUE,
        !.hasContent = TRUE,
        !.content = [k \in ContentKeys |->
            CASE k = "textBlocks" -> ArrayOf(<< TextBlock("text-0", Long250B),
                                                TextBlock("text-1", <<"P", "l", "a", "i", "n", " ", "p", "a", "r", "a", "g", "r", "a", "p", "h">>) >>)
              [] k = "hotspots" ->
                    ArrayOf(<< Marker("hotspot-0", <<"M", "a", "r", "k", "e", "r", " ", "o", "n", "e">>, <<>>),
                               Marker("hotspot-1", <<"P", "i", "n">>, <<>>),
                               Marker("hotspot-2", <<"M", "a", "r", "k", "e", "r", " ", "o", "n", "e">>, <<>>) >>)
              [] k = "knowledgeChecks" ->
                    ArrayOf(<< Question("kc-0", LoadingB),
                               Question("kc-1", <<"W", "h", "i", "c", "h", " ", "r", "o", "l", "e", " ", "c", "a", "n", " ", "i", "n", "v", "i", "t", "e", " ", "u", "s", "e", "r", "s", "?">>) >>)
              [] k = "accordions" ->
                    ArrayOf(<< Accordion("accordion-0", <<"P", "a", "n", "e", "l", " ", "b", "o", "d", "y", " ", "t", "w", "o">>),
                               Accordion("accordion-1", <<"N", "o">>),
                               Accordion("accordion-2", <<"P", "a", "n", "e", "l", " ", "b", "o", "d", "y", " ", "t", "w", "o">>),
                               Accordion("accordion-3", Long250B) >>)
              [] k = "flipCards" ->
                    ArrayOf(<< FlipCard("flip-0", <<"F", "r", "o", "n", "t", " ", "s", "i", "d", "e">>, <<"B", "a", "c", "k", " ", "s", "i", "d", "e">>) >>)
              [] k = "rawText" -> StringOf(<<"r", "a", "w", " ", "t", "e", "x", "t">>)
              [] OTHER -> ArrayOf(<<>>)]]

\* A scrapeMainPage response whose metadata has an empty course
LessonResponse ==
    [BlankResponse EXCEPT
        !.success = "true", !.hasData = TRUE,
        !.hasMetadata = TRUE,
        !.metadata = [BlankMeta EXCEPT !.url = <<"U", "3">>, !.scrapedAt = <<"T", "0">>,
                                       !.lesson = <<"L", "2">>],
        !.hasContent = TRUE,
        !.content = [k \in ContentKeys |->
            CASE k = "textBlocks" -> ArrayOf(<< TextBlock("text-0", Mid150B) >>)
              [] k = "rawText" -> StringOf(<<>>)
              [] OTHER -> ArrayOf(<<>>)]]

\* The aggregate of the injected script over the frames of the tab.  The
\* aggregation leaves an empty array under content.metadata, which has no
\* keys to merge.
Injected(hotspots, textBlocks, lists) ==
    [BlankResponse EXCEPT
        !.success = "true", !.hasData = TRUE,
        !.hasContent = TRUE,
        !.hasContentMetadata = TRUE,
        !.content = [k \in ContentKeys |->
            CASE k = "textBlocks" -> ArrayOf(textBlocks)
              [] k = "hotspots" -> ArrayOf(hotspots)
              [] k = "lists" -> ArrayOf(lists)
              [] k \in {"videos", "rawText"} -> NoValue
              [] OTHER -> ArrayOf(<<>>)]]

\* One frame with a labeled graphic
InjectedResponse ==
    Injected(<< Group4, GroupStatus2 >>,
             << TextBlock("injected-text-0", <<"P", "l", "a", "i", "n", " ", "p", "a", "r", "a", "g", "r", "a", "p", "h">>),
                TextBlock("injected-text-1", <<"A", "n", "o", "t", "h", "e", "r", " ", "h", "e", "a", "d", "i", "n", "g">>) >>,
             << ListBlock("injected-list-0", << <<"f", "i", "r", "s", "t">>, <<"s", "e", "c", "o", "n", "d">> >>) >>)

\* Two frames, each with labeled graphics and the same paragraph
InjectedFrames ==
    Injected(<< Group3, GroupStatus1, Group4, GroupStatus2 >>,
             << TextBlock("injected-text-0", <<"P", "l", "a", "i", "n", " ", "p", "a", "r", "a", "g", "r", "a", "p", "h">>),
                TextBlock("injected-text-0", <<"P", "l", "a", "i", "n", " ", "p", "a", "r", "a", "g", "r", "a", "p", "h">>) >>,
             <<>>)

\* One frame whose labeled graphic matches the same element twice
InjectedTwice ==
    Injected(<< GroupTwice >>, << TextBlock("injected-text-0", Mid150B) >>, <<>>)

\* A table, an image, a video, a tab set or an accordion of panels: the
\* fields of its own (headers and rows, src and alt, tabs, panels) are read
\* by no stage of combineResults, so it is an id and nothing the content
\* hash looks at
Untexted(id) == [BlankItem EXCEPT !.id = id]

\* { success: true, data: { content } } of a Rise 360 frame with a table,
\* two images, a video, a tab set, an accordion of panels and a paragraph
RiseFrameResponse ==
    [BlankResponse EXCEPT
        !.success = "true", !.hasData = TRUE,
        !.hasContent = TRUE,
        !.content = [k \in ContentKeys |->
            CASE k = "tables" -> ArrayOf(<< Untexted("generic-table-0") >>)
              [] k = "images" -> ArrayOf(<< Untexted("rise-img-0"), Untexted("rise-img-1") >>)
              [] k = "videos" -> ArrayOf(<< Untexted("rise-video-0") >>)
              [] k = "tabs" -> ArrayOf(<< Untexted("rise-tabs-0") >>)
              [] k = "accordions" -> ArrayOf(<< Untexted("injected-acc-0") >>)
              [] k = "textBlocks" -> ArrayOf(<< TextBlock("rise-text-0", <<"P", "l", "a", "i", "n", " ", "p", "a", "r", "a", "g", "r", "a", "p", "h">>) >>)
              [] k = "rawText" -> StringOf(<<"r", "a", "w", " ", "t", "e", "x", "t">>)
              [] OTHER -> ArrayOf(<<>>)]]

\* { success: true, data: aggregated } of executeInAllFrames: no content key
AllFramesResponse ==
    [BlankResponse EXCEPT
        !.success = "true", !.hasData = TRUE,
        !.direct = [k \in ContentKeys |->
            CASE k = "textBlocks" ->
                    ArrayOf(<< TextBlock("text-0", <<"P", "a", "r", "a", "g", "r", "a", "p", "h", " ", "o", "f", " ", "a", " ", "f", "r", "a", "m", "e">>) >>)
              [] k = "knowledgeChecks" ->
                    ArrayOf(<< Question("kc-0", <<"W", "h", "i", "c", "h", " ", "f", "r", "a", "m", "e", " ", "h", "o", "l", "d", "s", " ", "t", "h", "e", " ", "l", "e", "s", "s", "o", "n", "?">>) >>)
              [] k \in {"tables", "rawText"} -> NoValue
              [] OTHER -> ArrayOf(<<>>)]]

\* The results a source call can hand over
SourcePool == { AbsentResponse, FailedResponse, PlainMetadata1, PlainMetadata2,
                MainResponse, IframeResponse, LessonResponse, InjectedResponse,
                InjectedFrames, InjectedTwice, AllFramesResponse, RiseFrameResponse }

(* ------------------------------- labels -------------------------------- *)

MinLabelLength == 5
MaxTitlePrefix == 50
MaxBoundaryRun == 40
MinSeparatorTitle == 3
MaxSeparatorTitle == 40

\* White space as String.prototype.trim() and \s see it
WhiteSpace == {" ", "\t", "\n"}

\* The characters `.` does not match
LineTerminators == {"\n"}

LowerCase == {lowerOf[c] : c \in UpperCase}

\* String.prototype.trim()
RECURSIVE trimStart(_)
trimStart(s) ==
    IF s # <<>> /\ Head(s) \in WhiteSpace THEN trimStart(Tail(s)) ELSE s

RECURSIVE trimEnd(_)
trimEnd(s) ==
    IF s # <<>> /\ s[Len(s)] \in WhiteSpace
    THEN trimEnd(SubSeq(s, 1, Len(s) - 1)) ELSE s

trim(s) == trimEnd(trimStart(s))

\* s from its character number i to its end
from(s, i) == SubSeq(s, i, Len(s))

\* The token tok stands in s at character number i
startsWithAt(s, i, tok) ==
    /\ i + Len(tok) - 1 <= Len(s)
    /\ SubSeq(s, i, i + Len(tok) - 1) = tok

\* The greedy run of `.` in s from character number i: up to the first line
\* terminator
RECURSIVE dotRun(_, _)
dotRun(s, i) ==
    IF i > Len(s) \/ s[i] \in LineTerminators THEN <<>>
    ELSE <<s[i]>> \o dotRun(s, i + 1)

\* null, or a string
NoLabel == [isNull |-> TRUE, text |-> <<>>]
LabelOf(text) == [isNull |-> FALSE, text |-> text]

EXCLUDE_LABELS == { <<"c", "l", "o", "s", "e", " ", "m", "o", "d", "a", "l">>, <<"p", "r", "e", "v", "i", "o", "u", "s">>, <<"n", "e", "x", "t">>, <<"b", "a", "c", "k">>, <<"s", "u", "b", "m", "i", "t">>,
                    <<"c", "o", "n", "t", "i", "n", "u", "e">>, <<"s", "k", "i", "p">>, <<"m", "e", "n", "u">>, <<"n", "o", "t", " ", "v", "i", "e", "w", "e", "d">>, <<"m", "a", "r", "k", "e", "r", ",">>,
                    <<"i", "n", "f", "o", "r", "m", "a", "t", "i", "o", "n", ",", " ", "n", "o", "t", " ", "v", "i", "e", "w", "e", "d">> }

\* A check that looks at the vocabulary only
shouldExcludeLabelByWordOnly(l) ==
    \E ex \in EXCLUDE_LABELS : includes(trim(toLowerCase(l.text)), ex)

shouldExcludeLabel(l) ==
    IF l.isNull \/ l.text = <<>> THEN TRUE
    ELSE LET lowerLabel == trim(toLowerCase(l.text))
         IN  IF Len(lowerLabel) < MinLabelLength THEN TRUE
             ELSE \E ex \in EXCLUDE_LABELS : includes(lowerLabel, ex) \/ lowerLabel = ex

\* The alternatives of the sentence-start pattern
SentenceStarters == { <<"T", "h", "e">>, <<"T", "h", "i", "s">>, <<"Y", "o", "u">>, <<"W", "h", "e", "n">>, <<"I", "f">>, <<"A", " ">>, <<"A", "n", " ">>, <<"I", "t", " ">>,
                      <<"S", "e", "l", "e", "c", "t">>, <<"I", "n", " ">>, <<"O", "n", " ">>, <<"U", "s", "e">>, <<"C", "l", "i", "c", "k">>, <<"C", "h", "o", "o", "s", "i", "n", "g">>,
                      <<"E", "n", "a", "b", "l", "i", "n", "g">>, <<"D", "i", "s", "a", "b", "l", "i", "n", "g">>, <<"W", "h", "a", "t">>, <<"W", "h", "e", "r", "e">>, <<"H", "o", "w">>, <<"W", "h", "y">>,
                      <<"W", "h", "i", "c", "h">>, <<"M", "F", "A", " ">>, <<"N", "o", "t", "e", ":">>, <<"T", "i", "p", ":">>, <<"G", "e", "n", "e", "r", "a", "l", "l", "y">>,
                      <<"A", "d", "d", "i", "t", "i", "o", "n", "a", "l">> }

\* [:–—-] : the colon, the en dash and the em dash (each one character,
\* written by its name) and the hyphen
Separators == {":", "ndash", "mdash", "-"}

\* No match of a pattern
NoMatch == [matched |-> FALSE, first |-> <<>>, second |-> <<>>]
Match(first, second) == [matched |-> TRUE, first |-> first, second |-> second]

\* /^(.+?)((?:The|This|...)[^]*)/ : the lazy first group grows one character
\* at a time from n characters until a token follows it
RECURSIVE sentenceStartFrom(_, _)
sentenceStartFrom(s, n) ==
    IF n >= Len(s) \/ s[n] \in LineTerminators THEN NoMatch
    ELSE IF \E tok \in SentenceStarters : startsWithAt(s, n + 1, tok)
    THEN Match(SubSeq(s, 1, n), from(s, n + 1))
    ELSE sentenceStartFrom(s, n + 1)

\* /^(.+?)([A-Z][a-z].*)$/ on the title
RECURSIVE reparseFrom(_, _)
reparseFrom(s, n) ==
    IF n + 2 > Len(s) \/ s[n] \in LineTerminators THEN NoMatch
    ELSE IF /\ s[n + 1] \in UpperCase
            /\ s[n + 2] \in LowerCase
            /\ dotRun(s, n + 1) = from(s, n + 1)
    THEN Match(SubSeq(s, 1, n), from(s, n + 1))
    ELSE reparseFrom(s, n + 1)

\* /^([A-Z][a-zA-Z\s]{1,40}?)([A-Z][a-z].*)/ : the lazy run after the first
\* capital grows from n characters
RECURSIVE boundaryFrom(_, _)
boundaryFrom(s, n) ==
    IF n > MaxBoundaryRun \/ n + 3 > Len(s) \/ s[n + 1] \notin UpperCase \cup LowerCase \cup WhiteSpace
    THEN NoMatch
    ELSE IF s[n + 2] \in UpperCase /\ s[n + 3] \in LowerCase
    THEN Match(SubSeq(s, 1, n + 1), dotRun(s, n + 2))
    ELSE boundaryFrom(s, n + 1)

boundaryMatch(s) ==
    IF s # <<>> /\ s[1] \in UpperCase THEN boundaryFrom(s, 1) ELSE NoMatch

\* /^([^:–—-]{3,40})(?:\s*[:–—-]\s*)(.+)/ : the first group cannot hold a
\* separator, so the separator matched is the first one of the label; the
\* group takes all before it, up to 40 characters followed by white space
\* only; after the separator \s* gives back what (.+) needs.
separatorMatch(s) ==
    LET seps == {i \in 1..Len(s) : s[i] \in Separators}
    IN  IF seps = {} THEN NoMatch
        ELSE LET p == CHOOSE i \in seps : \A j \in seps : i <= j
                 taken == Min(p - 1, MaxSeparatorTitle)
                 starts == {k \in (p + 1)..Len(s) :
                               /\ s[k] \notin LineTerminators
                               /\ \A j \in (p + 1)..(k - 1) : s[j] \in WhiteSpace}
             IN  IF /\ p - 1 >= MinSeparatorTitle
                    /\ \A j \in (taken + 1)..(p - 1) : s[j] \in WhiteSpace
                    /\ starts # {}
                 THEN LET k == CHOOSE i \in starts : \A j \in starts : j <= i
                      IN  Match(SubSeq(s, 1, taken), dotRun(s, k))
                 ELSE NoMatch

\* The value no call of parseLabel returns
NotParsed == [rule |-> "none", title |-> <<>>, description |-> <<>>]
Parsed(rule, title, description) ==
    [rule |-> rule, title |-> title, description |-> description]

\* A parser that tries the separator before the capitalization boundary
parseLabelSeparatorFirst(l) ==
    IF l.isNull \/ l.text = <<>> THEN Parsed("fallback", <<>>, <<>>)
    ELSE LET s == l.text
             m1 == sentenceStartFrom(s, 1)
             m2 == boundaryMatch(s)
             m3 == separatorMatch(s)
         IN  IF m1.matched /\ Len(m1.first) <= MaxTitlePrefix
             THEN Parsed("sentence", trim(m1.first), trim(m1.second))
             ELSE IF m3.matched
             THEN Parsed("separator", trim(m3.first), trim(m3.second))
             ELSE IF m2.matched
             THEN Parsed("boundary", trim(m2.first), trim(m2.second))
             ELSE Parsed("fallback", <<>>, trim(s))

\* parseLabel(label): the rule that returned, and the { title, description }
\* it returned
parseLabel(l) ==
    IF l.isNull \/ l.text = <<>> THEN Parsed("fallback", <<>>, <<>>)
    ELSE LET s == l.text
             m1 == sentenceStartFrom(s, 1)
             m2 == boundaryMatch(s)
             m3 == separatorMatch(s)
         IN  IF m1.matched /\ Len(m1.first) <= MaxTitlePrefix
             THEN LET title == trim(m1.first)
                      description == trim(m1.second)
                      reparse == reparseFrom(title, 1)
                  IN  IF description # <<>> /\ description[1] \in LowerCase
                         /\ reparse.matched
                      THEN Parsed("sentence", trim(reparse.first),
                                  reparse.second \o description)
                      ELSE Parsed("sentence", title, description)
             ELSE IF m2.matched
             THEN Parsed("boundary", trim(m2.first), trim(m2.second))
             ELSE IF m3.matched
             THEN Parsed("separator", trim(m3.first), trim(m3.second))
             ELSE Parsed("fallback", <<>>, trim(s))

\* The labels handed to the helpers: a title, what joins it to the rest,
\* and the rest
LabelTitles == { <<>>, <<"R", "e", "q", "u", "i", "r", "e", " ", "M", "F", "A">>, <<"S", "t", "a", "t", "u", "s">>, <<"s", "t", "a", "t", "u", "s">>, <<"E", "n", "a", "b", "l", "e", " ", "u", "s", "e", "r">>,
                 <<" ", " ", "S", "t", "a", "t", "u", "s">>, <<"A", "b">>, <<"N", "e", "x", "t">>, <<"C", "l", "o", "s", "e", " ", "M", "o", "d", "a", "l">>, <<"G", "o", " ", "B", "a", "c", "k">>,
                 <<"A", "c", "c", "o", "u", "n", "t", " ", "S", "e", "t", "t", "i", "n", "g", "s">>,
                 <<"X">> \o Rep("x", 49), <<"X">> \o Rep("x", 50) }

LabelJoiners == { <<>>, <<":", " ">>, <<" ", "-", " ">>, <<"ndash">>, <<"\n">> }

LabelRests == { <<>>, <<"A", "c", "t", "i", "v", "e">>, <<"a", "c", "t", "i", "v", "e", " ", "n", "o", "w">>, <<"T", "h", "i", "s", " ", "s", "h", "o", "w", "s", " ", "t", "h", "e", " ", "s", "t", "a", "t", "e">>,
                <<"Y", "o", "u", " ", "c", "a", "n", " ", "t", "u", "r", "n", " ", "i", "t", " ", "o", "f", "f">>,
                <<"T", "h", "e", " ", "f", "i", "r", "s", "t", " ", "t", "i", "m", "e", " ", "a", " ", "u", "s", "e", "r", " ", "l", "o", "g", "s", " ", "i", "n", ",", " ", "t", "h", "e", "y", " ", "m", "u", "s", "t", " ", "s", "e", "t", " ", "u", "p", " ", "M", "F", "A", ".">> }

LabelPool == {NoLabel} \cup
    { LabelOf(t \o j \o r) : t \in LabelTitles, j \in LabelJoiners, r \in LabelRests }

(* ------------------------------- history ------------------------------- *)

HistoryCap == 50

\* storage.history || [] of a profile that never saved
NoHistory == <<>>

\* No saveToHistory handler is between its first await and its response
NoHandlers == <<>>

\* The history n earlier saves left in chrome.storage.local, newest first;
\* the entries of earlier sessions are numbered below zero, older is lower
Stored(n) == [i \in 1..n |-> 0 - i]

\* A history that is never cut
keepLastNever(history) == history

\* if (history.length > 50) history.splice(50)
keepLast(history) ==
    IF Len(history) > HistoryCap THEN SubSeq(history, 1, HistoryCap) ELSE history

(* ---------------------------- state machine ---------------------------- *)

NoDocument == [threw |-> FALSE, metadata |-> BlankMeta, content |-> initialContent,
               statistics |-> NoStatistics]

\* this.currentData: null, or the document of the last scrape
NoData == [isNull |-> TRUE, document |-> NoDocument]
DataOf(document) == [isNull |-> FALSE, document |-> document]

\* The source calls of scrapeContent in the order it awaits them; each
\* name is the variable that receives the result
SourceCalls == <<"mainResponse", "iframeResponse", "allFramesResponse",
                 "mainFrameMetadata", "injectedResponse">>

\* let mainResponse = null; ... : every result variable starts as null
NoResults == [s \in {SourceCalls[i] : i \in 1..Len(SourceCalls)} |-> AbsentResponse]

\* The clipboard before any writeText
NothingWritten == [written |-> FALSE, text |-> <<>>]

\* No combineResults call has been made
PipelineAtRest ==
    /\ responses = <<>>
    /\ pc = "collect"
    /\ merged = initialContent
    /\ deduped = initialContent
    /\ combined = NoDocument

\* The popup as its constructor leaves it, once checkPageStatus has enabled
\* the scrape button
PopupAtRest ==
    /\ step = "idle"
    /\ locals = NoResults
    /\ settled = <<>>
    /\ currentData = NoData
    /\ message = "none"
    /\ clipboard = NothingWritten
    /\ loading = FALSE
    /\ scrapeBtnDisabled = FALSE
    /\ injectionResults = <<>>

\* No label helper has been called
LabelsAtRest ==
    /\ rawLabel = NoLabel
    /\ excluded = "unset"
    /\ parsed = NotParsed

\* The background worker has received no message
BackgroundAtRest ==
    /\ handlers = NoHandlers
    /\ answers = <<>>

Init ==
    /\ PipelineAtRest
    /\ PopupAtRest
    /\ LabelsAtRest
    /\ BackgroundAtRest
    /\ storage = NoHistory

\* One source call of the scrape settles: its result joins the list that
\* will be handed to combineResults.
SourceSettles(r) ==
    /\ pc = "collect"
    /\ Len(responses) < MaxSources
    /\ responses' = Append(responses, r)
    /\ UNCHANGED <<pc, merged, deduped, combined>>
    /\ UNCHANGED popupVars
    /\ UNCHANGED otherVars

\* combineResults(...responses) runs to its end; merged and deduped are
\* combined.content after the merge loop and after the deduplication.
CombineResults ==
    /\ pc = "collect"
    /\ pc' = "done"
    /\ merged' = mergeStage(responses).content
    /\ deduped' = dedupStage(mergeStage(responses).content)
    /\ combined' = combineResults(responses)
    /\ UNCHANGED responses
    /\ UNCHANGED popupVars
    /\ UNCHANGED otherVars

Next ==
    \/ \E r \in SourcePool : SourceSettles(r)
    \/ CombineResults

Spec == Init /\ [][Next]_vars


(* ------------------------ lists of any shape --------------------------- *)

\* combineResults reads its arguments without checking their shape.  Beside
\* entries the sources of the popup build, these are entries the function
\* accepts as well: bare metadata objects with a single field, envelopes
\* that both carry a rawText, envelopes with a string under a category
\* key, and questions captured without the system-message filter.

\* { path: 'Home > Courses' }
PathOnlyMetadata == [BlankResponse EXCEPT !.top = [BlankMeta EXCEPT !.path = <<"P", "3">>]]

\* { course: 'Z' }
CourseOnlyMetadata == [BlankResponse EXCEPT !.top = [BlankMeta EXCEPT !.course = <<"Z">>]]

\* An envelope whose content has the given value under one key only
Envelope(key, value) ==
    [BlankResponse EXCEPT
        !.success = "true", !.hasData = TRUE, !.hasContent = TRUE,
        !.content = [k \in ContentKeys |-> IF k = key THEN value ELSE NoValue]]

\* scrapeMainPage and scrapeIframe both read the frame's text: the frame
\* may have changed between the two calls
RawTextFirst == Envelope("rawText", StringOf(<<"f", "i", "r", "s", "t", " ", "r", "a", "w", " ", "t", "e", "x", "t">>))
RawTextSecond == Envelope("rawText", StringOf(<<"s", "e", "c", "o", "n", "d", " ", "r", "a", "w", " ", "t", "e", "x", "t">>))

TabsResponse ==
    Envelope("tabs", ArrayOf(<< [BlankItem EXCEPT !.id = "tabs-0", !.label = <<"O", "v", "e", "r", "v", "i", "e", "w">>,
                                            !.content = <<"O", "v", "e", "r", "v", "i", "e", "w", " ", "o", "f", " ", "t", "h", "e", " ", "f", "l", "o", "w">>] >>))

\* { success: true, data: { content: { tabs: 'Overview' } } }
TextUnderTabs == Envelope("tabs", StringOf(<<"O", "v", "e", "r", "v", "i", "e", "w">>))

\* { success: true, data: { content: { hotspots: 'Marker one' } } }
TextUnderHotspots == Envelope("hotspots", StringOf(<<"M", "a", "r", "k", "e", "r", " ", "o", "n", "e">>))

\* Questions of a source that filters nothing at capture time: two that
\* differ after their first 120 characters only, and a system message
QuestionsResponse ==
    Envelope("knowledgeChecks",
             ArrayOf(<< Question("kc-0", Mid150A),
                        Question("kc-1", <<"L", "o", "a", "d", "i", "n", "g", " ", "t", "h", "e", " ", "n", "e", "x", "t", " ", "q", "u", "e", "s", "t", "i", "o", "n", ",", " ", "p", "l", "e", "a", "s", "e", " ", "w", "a", "i", "t">>),
                        Question("kc-2", Mid150B),
                        Question("kc-3", <<"W", "h", "i", "c", "h", " ", "r", "o", "l", "e", " ", "c", "a", "n", " ", "i", "n", "v", "i", "t", "e", " ", "u", "s", "e", "r", "s", "?">>) >>))

\* Two text blocks that differ after their first 120 characters only, and
\* two lists with different titles and the same items
SameStartResponse ==
    [BlankResponse EXCEPT
        !.success = "true", !.hasData = TRUE, !.hasContent = TRUE,
        !.content = [k \in ContentKeys |->
            CASE k = "textBlocks" -> ArrayOf(<< TextBlock("text-0", Mid150A),
                                                TextBlock("text-1", Mid150B) >>)
              [] k = "lists" ->
                    ArrayOf(<< [BlankItem EXCEPT !.id = "list-0", !.title = <<"S", "e", "t", "u", "p", " ", "s", "t", "e", "p", "s">>,
                                          !.items = << <<"f", "i", "r", "s", "t">>, <<"s", "e", "c", "o", "n", "d">> >>],
                               [BlankItem EXCEPT !.id = "list-1", !.title = <<"S", "e", "t", "u", "p", " ", "o", "r", "d", "e", "r">>,
                                          !.items = << <<"f", "i", "r", "s", "t">>, <<"s", "e", "c", "o", "n", "d">> >>] >>)
              [] OTHER -> NoValue]]

AnyPool == { AbsentResponse, PlainMetadata1, PathOnlyMetadata, CourseOnlyMetadata,
             LessonResponse, RawTextFirst, RawTextSecond, TabsResponse,
             TextUnderTabs, TextUnderHotspots, QuestionsResponse,
             SameStartResponse }

AnyNext ==
    \/ \E r \in AnyPool : SourceSettles(r)
    \/ CombineResults

\* combineResults applied to every list of at most MaxSources such entries
AnySpec == Init /\ [][AnyNext]_vars

(* ------------------------------ scrapeContent -------------------------- *)

\* The arguments of the combineResults call, in the order they were awaited
CombineArgumentsAsAwaited == SourceCalls

\* this.combineResults(mainResponse, iframeResponse, allFramesResponse,
\*                     injectedResponse, mainFrameMetadata)
CombineArguments == <<"mainResponse", "iframeResponse", "allFramesResponse",
                      "injectedResponse", "mainFrameMetadata">>

\* Every frame answered the injected script with empty arrays
InjectedNothing == Injected(<<>>, <<>>, <<>>)

\* The metadata literal of the injected script
NoFrameMetadata == [course |-> <<>>, lesson |-> <<>>, path |-> <<>>]

\* The result of one frame: null, or the content object the injected
\* script returned (content.metadata and the category arrays)
NullFrame == [isNull |-> TRUE, metadata |-> NoFrameMetadata,
              hotspots |-> <<>>, textBlocks |-> <<>>, lists |-> <<>>]

FrameContent(metadata, hotspots, textBlocks, lists) ==
    [isNull |-> FALSE, metadata |-> metadata,
     hotspots |-> hotspots, textBlocks |-> textBlocks, lists |-> lists]

\* The lesson frame: breadcrumbs, an h1 and a labeled graphic
LessonFrame ==
    FrameContent([course |-> <<"Y", "2">>, lesson |-> <<"L", "3">>, path |-> <<"P", "3">>],
                 << Group4, GroupStatus2 >>,
                 << TextBlock("injected-text-0", <<"P", "l", "a", "i", "n", " ", "p", "a", "r", "a", "g", "r", "a", "p", "h">>),
                    TextBlock("injected-text-1", <<"A", "n", "o", "t", "h", "e", "r", " ", "h", "e", "a", "d", "i", "n", "g">>) >>,
                 << ListBlock("injected-list-0", << <<"f", "i", "r", "s", "t">>, <<"s", "e", "c", "o", "n", "d">> >>) >>)

\* What executeScript can resolve with, one InjectionResult per frame: the
\* lesson frame and a frame without result, or one frame without
\* breadcrumbs, h1 or content
InjectionPool == { << LessonFrame, NullFrame >>,
                   << FrameContent(NoFrameMetadata, <<>>, <<>>, <<>>) >> }

\* result.result[key] pushed when it is an array, frame after frame
RECURSIVE pushed(_, _)
pushed(results, key) ==
    IF results = <<>> THEN <<>>
    ELSE LET result == Head(results)
         IN  (IF result.isNull THEN <<>> ELSE result[key]) \o pushed(Tail(results), key)

\* The aggregation of the injection results: every key of a frame's content
\* becomes an array, and only array values are pushed into it, so that
\* content.metadata, an object, leaves an empty array behind.
aggregateInjection(results) ==
    IF \A i \in 1..Len(results) : results[i].isNull
    THEN [BlankResponse EXCEPT !.success = "true", !.hasData = TRUE,
                               !.hasContent = TRUE]
    ELSE Injected(pushed(results, "hotspots"), pushed(results, "textBlocks"),
                  pushed(results, "lists"))

\* { success: true, data: { content } } of scrapeIframe for a frame with
\* one question and one panel
FrameResponse ==
    [BlankResponse EXCEPT
        !.success = "true", !.hasData = TRUE,
        !.hasContent = TRUE,
        !.content = [k \in ContentKeys |->
            CASE k = "knowledgeChecks" ->
                    ArrayOf(<< Question("kc-0", <<"W", "h", "i", "c", "h", " ", "r", "o", "l", "e", " ", "c", "a", "n", " ", "i", "n", "v", "i", "t", "e", " ", "u", "s", "e", "r", "s", "?">>) >>)
              [] k = "accordions" ->
                    ArrayOf(<< Accordion("accordion-0", <<"P", "a", "n", "e", "l", " ", "b", "o", "d", "y", " ", "t", "w", "o">>) >>)
              [] k = "rawText" -> StringOf(<<"r", "a", "w", " ", "t", "e", "x", "t">>)
              [] OTHER -> ArrayOf(<<>>)]]

\* What each source call can resolve with
ResolvesWith(s) ==
    CASE s = "mainResponse" -> { LessonResponse }
      [] s = "iframeResponse" -> { FrameResponse }
      [] s = "allFramesResponse" -> { AllFramesResponse, FailedResponse }
      [] s = "mainFrameMetadata" -> { PlainMetadata2 }
      [] s = "injectedResponse" ->
            { aggregateInjection(results) : results \in InjectionPool }

\* Where scrapeContent stands once the call s has resolved: at the next
\* await, or at the combineResults call after the last one
afterCall(s) ==
    LET i == CHOOSE n \in 1..Len(SourceCalls) : SourceCalls[n] = s
    IN  IF i = Len(SourceCalls) THEN "combine" ELSE SourceCalls[i + 1]

\* A rejection that leaves the try block of the whole scrape
afterRejectionFatal(s) == "catch"

\* Where scrapeContent stands once the call s has rejected: the catch
\* around the call logs a note and the function goes on
afterRejection(s) == afterCall(s)

\* A message that reports success for every document
resultMessageAlwaysSuccess(document) == "success"

\* The message shown for the document of a scrape
resultMessage(document) ==
    IF document.statistics.totalItems > 0 THEN "success" ELSE "info"

\* JSON.stringify(this.currentData, null, 2): the text lists the three
\* keys of the document with their values
stringify(document) ==
    << <<"metadata", document.metadata>>, <<"content", document.content>>,
       <<"statistics", document.statistics>> >>

\* The scrape button is clicked while it is enabled: scrapeContent clears
\* the message area, disables the button and awaits chrome.tabs.query.
ClickScrape ==
    /\ step = "idle"
    /\ ~scrapeBtnDisabled
    /\ step' = "query"
    /\ loading' = TRUE
    /\ scrapeBtnDisabled' = TRUE
    /\ injectionResults' = <<>>
    /\ message' = "none"
    /\ locals' = NoResults
    /\ settled' = <<>>
    /\ responses' = <<>>
    /\ pc' = "collect"
    /\ merged' = initialContent
    /\ deduped' = initialContent
    /\ combined' = NoDocument
    /\ UNCHANGED <<currentData, clipboard>>
    /\ UNCHANGED otherVars

\* chrome.tabs.query resolves: the first source call is issued
QueryResolves ==
    /\ step = "query"
    /\ step' = SourceCalls[1]
    /\ UNCHANGED <<responses, pc, merged, deduped, combined>>
    /\ UNCHANGED <<locals, settled, currentData, message, clipboard>>
    /\ UNCHANGED <<loading, scrapeBtnDisabled, injectionResults>>
    /\ UNCHANGED otherVars

\* A finally that removes the indicator and forgets the button
finallyLeavesDisabled ==
    /\ loading' = FALSE
    /\ UNCHANGED scrapeBtnDisabled

\* finally { loading.classList.remove('active'); scrapeBtn.disabled = false }
finallyBlock ==
    /\ loading' = FALSE
    /\ scrapeBtnDisabled' = FALSE

\* A catch that also forgets the document of the scrape before
CatchAndFinallyClearing ==
    /\ step' = "idle"
    /\ message' = "error"
    /\ currentData' = NoData
    /\ finallyBlock
    /\ UNCHANGED clipboard

\* The catch and the finally of scrapeContent
CatchAndFinally ==
    /\ step' = "idle"
    /\ message' = "error"
    /\ finallyBlock
    /\ UNCHANGED <<currentData, clipboard>>

\* chrome.tabs.query rejects
QueryRejects ==
    /\ step = "query"
    /\ CatchAndFinally
    /\ UNCHANGED <<responses, pc, merged, deduped, combined, locals, settled>>
    /\ UNCHANGED injectionResults
    /\ UNCHANGED otherVars

\* The end of scrapeContent with the result variables ls: combineResults,
\* the assignment of this.currentData, displayResults, the message, finally
CombineAndShow(ls) ==
    LET arguments == [i \in 1..Len(CombineArguments) |-> ls[CombineArguments[i]]]
        document == combineResults(arguments)
    IN  /\ responses' = arguments
        /\ pc' = "done"
        /\ merged' = mergeStage(arguments).content
        /\ deduped' = dedupStage(mergeStage(arguments).content)
        /\ combined' = document
        /\ IF document.threw
           THEN CatchAndFinally
           ELSE /\ currentData' = DataOf(document)
                /\ message' = resultMessage(document)
                /\ step' = "idle"
                /\ finallyBlock
                /\ UNCHANGED clipboard

\* scrapeContent goes on from the awaited call s to `target`
GoOn(s, target, ls) ==
    /\ locals' = ls
    /\ CASE target = "combine" -> CombineAndShow(ls)
         [] target = "catch" ->
                /\ CatchAndFinally
                /\ UNCHANGED <<responses, pc, merged, deduped, combined>>
         [] OTHER ->
                /\ step' = target
                /\ UNCHANGED <<responses, pc, merged, deduped, combined>>
                /\ UNCHANGED <<currentData, message, clipboard>>
                /\ UNCHANGED <<loading, scrapeBtnDisabled>>

\* The awaited source call s resolves with r
SourceResolves(s, r) ==
    /\ step = s
    /\ s # "injectedResponse"
    /\ settled' = Append(settled, [call |-> s, rejected |-> FALSE])
    /\ GoOn(s, afterCall(s), [locals EXCEPT ![s] = r])
    /\ UNCHANGED injectionResults
    /\ UNCHANGED otherVars

\* chrome.scripting.executeScript resolves with one InjectionResult per
\* frame: the results are aggregated into injectedResponse
InjectionResolves(results) ==
    /\ step = "injectedResponse"
    /\ injectionResults' = results
    /\ settled' = Append(settled, [call |-> "injectedResponse", rejected |-> FALSE])
    /\ GoOn("injectedResponse", afterCall("injectedResponse"),
            [locals EXCEPT !["injectedResponse"] = aggregateInjection(results)])
    /\ UNCHANGED otherVars

\* The awaited source call s rejects: its variable stays null
SourceRejects(s) ==
    /\ step = s
    /\ settled' = Append(settled, [call |-> s, rejected |-> TRUE])
    /\ GoOn(s, afterRejection(s), locals)
    /\ UNCHANGED injectionResults
    /\ UNCHANGED otherVars

\* The copy button is clicked; writeText resolves (written) or rejects
CopyToClipboard(written) ==
    /\ IF currentData.isNull
       THEN message' = "nodata" /\ UNCHANGED clipboard
       ELSE IF written
       THEN /\ clipboard' = [written |-> TRUE, text |-> stringify(currentData.document)]
            /\ message' = "copied"
       ELSE message' = "copyfailed" /\ UNCHANGED clipboard
    /\ UNCHANGED <<responses, pc, merged, deduped, combined>>
    /\ UNCHANGED <<step, locals, settled, currentData>>
    /\ UNCHANGED <<loading, scrapeBtnDisabled, injectionResults>>
    /\ UNCHANGED otherVars

ScrapeNext ==
    \/ ClickScrape
    \/ QueryResolves
    \/ QueryRejects
    \/ \E i \in 1..Len(SourceCalls) :
          \E r \in ResolvesWith(SourceCalls[i]) : SourceResolves(SourceCalls[i], r)
    \/ \E results \in InjectionPool : InjectionResolves(results)
    \/ \E i \in 1..Len(SourceCalls) : SourceRejects(SourceCalls[i])
    \/ \E written \in BOOLEAN : CopyToClipboard(written)

\* The popup from its construction on
ScrapeSpec == Init /\ [][ScrapeNext]_vars


(* ---------------------------- label helpers ---------------------------- *)

\* A label of the page is about to be handed to the helpers
LabelInit ==
    /\ PipelineAtRest
    /\ PopupAtRest
    /\ BackgroundAtRest
    /\ storage = NoHistory
    /\ rawLabel \in LabelPool
    /\ excluded = "unset"
    /\ parsed = NotParsed

\* shouldExcludeLabel(rawLabel) is called
ShouldExcludeLabel ==
    /\ excluded = "unset"
    /\ excluded' = IF shouldExcludeLabel(rawLabel) THEN "true" ELSE "false"
    /\ UNCHANGED <<rawLabel, parsed>>
    /\ UNCHANGED <<responses, pc, merged, deduped, combined>>
    /\ UNCHANGED <<popupVars, backgroundVars>>

\* parseLabel(rawLabel) is called
ParseLabel ==
    /\ parsed = NotParsed
    /\ parsed' = parseLabel(rawLabel)
    /\ UNCHANGED <<rawLabel, excluded>>
    /\ UNCHANGED <<responses, pc, merged, deduped, combined>>
    /\ UNCHANGED <<popupVars, backgroundVars>>

LabelNext ==
    \/ ShouldExcludeLabel
    \/ ParseLabel

LabelSpec == LabelInit /\ [][LabelNext]_vars

(* --------------------------- saveToHistory ----------------------------- *)

\* The worker starts on a profile that may hold a history already
HistoryInit ==
    /\ PipelineAtRest
    /\ PopupAtRest
    /\ LabelsAtRest
    /\ BackgroundAtRest
    /\ storage \in { NoHistory, Stored(HistoryCap - 2) }

\* The handlers without the one of message m
without(m) == [x \in (DOMAIN handlers) \ {m} |-> handlers[x]]

\* The listener receives a saveToHistory message, the next in number:
\* handleSaveToHistory runs up to await chrome.storage.local.get
ReceiveSave ==
    /\ Len(answers) < MaxSaves
    /\ LET m == Len(answers) + 1
       IN  /\ answers' = Append(answers, "pending")
           /\ handlers' = [x \in (DOMAIN handlers) \cup {m} |->
                             IF x = m THEN [at |-> "get", history |-> <<>>]
                             ELSE handlers[x]]
    /\ UNCHANGED storage
    /\ UNCHANGED <<responses, pc, merged, deduped, combined>>
    /\ UNCHANGED <<popupVars, labelVars>>

\* storage.local.get resolves for message m: the entry is put in front of
\* the array read, the array is cut, and storage.local.set is called
GetResolves(m) ==
    /\ m \in DOMAIN handlers
    /\ handlers[m].at = "get"
    /\ handlers' = [handlers EXCEPT ![m] = [at |-> "set",
                                            history |-> keepLast(<<m>> \o storage)]]
    /\ UNCHANGED <<storage, answers>>
    /\ UNCHANGED <<responses, pc, merged, deduped, combined>>
    /\ UNCHANGED <<popupVars, labelVars>>

\* storage.local.set resolves for message m: the array of the handler is
\* what storage holds, and { success: true } is sent
SetResolves(m) ==
    /\ m \in DOMAIN handlers
    /\ handlers[m].at = "set"
    /\ storage' = handlers[m].history
    /\ answers' = [answers EXCEPT ![m] = "true"]
    /\ handlers' = without(m)
    /\ UNCHANGED <<responses, pc, merged, deduped, combined>>
    /\ UNCHANGED <<popupVars, labelVars>>

\* storage.local.get or storage.local.set rejects for message m: the catch
\* sends { success: false, error }
StorageRejects(m) ==
    /\ m \in DOMAIN handlers
    /\ answers' = [answers EXCEPT ![m] = "false"]
    /\ handlers' = without(m)
    /\ UNCHANGED storage
    /\ UNCHANGED <<responses, pc, merged, deduped, combined>>
    /\ UNCHANGED <<popupVars, labelVars>>

\* The worker with whatever messages arrive: the listener starts a handler
\* for each, and the handlers interleave at their awaits
SaveNext ==
    \/ ReceiveSave
    \/ \E m \in 1..MaxSaves : GetResolves(m) \/ SetResolves(m) \/ StorageRejects(m)

SaveSpec == HistoryInit /\ [][SaveNext]_vars

\* The worker when every saveToHistory message arrives after the handler of
\* the one before has answered
OneAtATimeNext ==
    \/ handlers = NoHandlers /\ ReceiveSave
    \/ \E m \in 1..MaxSaves : GetResolves(m) \/ SetResolves(m) \/ StorageRejects(m)

OneAtATimeSpec == HistoryInit /\ [][OneAtATimeNext]_vars

\* An awaited browser call settles, resolved or rejected: scrapeContent
\* leaves the await it stands at.  The steps of QueryResolves, QueryRejects,
\* SourceResolves, InjectionResolves and SourceRejects are such steps and no
\* other step is, and one is possible exactly when scrapeContent stands at
\* an await.
AwaitLeft ==
    /\ step # "idle"
    /\ step' \in ({"idle", "query"} \cup {SourceCalls[i] : i \in 1..Len(SourceCalls)})
                \ {step}

\* The popup when every awaited browser call eventually resolves or rejects
FairScrapeSpec == ScrapeSpec /\ WF_step(AwaitLeft)

(* ------------------------------- claims -------------------------------- *)

\* combineResults has returned a document
Returned == pc = "done" /\ ~combined.threw

\* The final sequence of a category
finalItems(k) == combined.content[k].array

\* Some two entries of a sequence of items have the same content hash
hasSharedHash(items) ==
    \E i, j \in 1..Len(items) :
        i # j /\ generateContentHash(items[i]) = generateContentHash(items[j])

\* C1: after combineResults returns, in every category that holds a
\* sequence no two items have the same content hash.
C1_NoSharedFingerprint ==
    Returned =>
        \A k \in ContentKeys :
            combined.content[k].kind = "array" => ~hasSharedHash(finalItems(k))

\* C1 witness: the sources supplied two items with one hash of five or more
\* characters, and the category still holds two or more items.
C1_Witness ==
    /\ Returned
    /\ \E k \in ArrayKeys :
          /\ Len(finalItems(k)) >= 2
          /\ \E i, j \in 1..Len(merged[k].array) :
                /\ i # j
                /\ Len(generateContentHash(merged[k].array[i])) >= MinHashLength
                /\ generateContentHash(merged[k].array[i])
                     = generateContentHash(merged[k].array[j])

\* The values a response supplies for a metadata field, in the order the
\* merge reads them; none when the response is not merged
suppliedBy(r, f) ==
    IF isPlainMetadata(r) THEN << r.top[f] >>
    ELSE IF isEnvelope(r)
    THEN (IF r.hasMetadata THEN << r.metadata[f] >> ELSE <<>>)
         \o (IF r.hasContent /\ r.hasContentMetadata
             THEN << r.contentMetadata[f] >> ELSE <<>>)
    ELSE <<>>

RECURSIVE suppliedByAll(_, _)
suppliedByAll(rs, f) ==
    IF rs = <<>> THEN <<>> ELSE suppliedBy(Head(rs), f) \o suppliedByAll(Tail(rs), f)

\* The first non-empty value the list supplies for a field, "" when none
firstNonEmpty(rs, f) ==
    LET given == SelectSeq(suppliedByAll(rs, f), LAMBDA v : v # <<>>)
    IN  IF given = <<>> THEN <<>> ELSE given[1]

\* C2: each of url, course, lesson and path of the combined metadata is the
\* first non-empty value the merged sources supply for it, in list order
\* ("" when none does), and a field that is non-empty after a prefix of
\* the list keeps its value whatever sources follow.
C2_MetadataFirstWins ==
    Returned =>
        \A f \in MetadataFields :
            /\ combined.metadata[f] = firstNonEmpty(responses, f)
            /\ \A n \in 1..Len(responses) :
                  LET before == mergeStage(SubSeq(responses, 1, n - 1)).metadata[f]
                      after == mergeStage(SubSeq(responses, 1, n)).metadata[f]
                  IN  before # <<>> => after = before

\* C2 witness: a merged source with an empty course, then one with course
\* "X", then one with another course; the document has course "X".
C2_Witness ==
    /\ Returned
    /\ Len(responses) = 3
    /\ responses[1].hasMetadata /\ isEnvelope(responses[1])
    /\ responses[1].metadata.course = <<>>
    /\ suppliedBy(responses[2], "course") = << <<"X">> >>
    /\ suppliedBy(responses[3], "course") = << <<"Y">> >>
    /\ combined.metadata.course = <<"X">>

\* C3: after combineResults returns, content.hotspots holds no group or one
\* group, and the point at position i of that group has index i, from 0.
C3_OneHotspotGroup ==
    Returned =>
        /\ Len(finalItems("hotspots")) <= 1
        /\ \A g \in 1..Len(finalItems("hotspots")) :
              LET points == finalItems("hotspots")[g].points
              IN  /\ finalItems("hotspots")[g].hasPoints
                  /\ \A i \in 1..Len(points) : points[i].index = i - 1

\* C3 witness: several source groups went in, and one group came out in
\* which a point has another index than the one its source gave it.
C3_Witness ==
    /\ Returned
    /\ Len(merged["hotspots"].array) >= 2
    /\ Len(finalItems("hotspots")) = 1
    /\ \E g \in 1..Len(merged["hotspots"].array) :
          LET group == merged["hotspots"].array[g]
          IN  /\ group.hasPoints
              /\ \E i \in 1..Len(group.points) :
                    \E j \in 1..Len(finalItems("hotspots")[1].points) :
                        /\ meaningfulContent(finalItems("hotspots")[1].points[j])
                             = meaningfulContent(group.points[i])
                        /\ finalItems("hotspots")[1].points[j].index # group.points[i].index

\* C4: each statistic of a category is the length of the category's final
\* sequence, totalItems is the sum of the other statistics, and it is 0 for
\* the document whose categories are all empty.
C4_StatisticsConsistent ==
    Returned =>
        LET s == combined.statistics
        IN  /\ \A k \in ArrayKeys : s[k] = Len(finalItems(k))
            /\ s.totalItems = s.flipCards + s.hotspots + s.knowledgeChecks
                                + s.accordions + s.tabs + s.images + s.textBlocks
                                + s.lists + s.tables + s.videos
            /\ (\A k \in ArrayKeys : finalItems(k) = <<>>) => s.totalItems = 0

\* C4 witness: a document with one hotspot group and items in two other
\* categories.
C4_Witness ==
    /\ Returned
    /\ combined.statistics.hotspots = 1
    /\ combined.statistics.textBlocks >= 2
    /\ combined.statistics.accordions >= 2
    /\ combined.statistics.totalItems >= 5

\* The items the sources supply for a category, source after source in
\* list order
RECURSIVE concatenated(_, _)
concatenated(rs, k) ==
    IF rs = <<>> THEN <<>>
    ELSE (IF isEnvelope(Head(rs)) /\ Head(rs).hasContent
             /\ Head(rs).content[k].kind = "array"
          THEN Head(rs).content[k].array ELSE <<>>)
         \o concatenated(Tail(rs), k)

\* Item i of a sequence is the first one with its content hash, and the
\* hash has five characters or more
isFirstOccurrence(items, i) ==
    /\ Len(generateContentHash(items[i])) >= MinHashLength
    /\ \A j \in 1..(i - 1) :
          generateContentHash(items[j]) # generateContentHash(items[i])

\* The entries of a sequence at the positions of a set, in their order
RECURSIVE restrictedTo(_, _, _)
restrictedTo(items, positions, i) ==
    IF i > Len(items) THEN <<>>
    ELSE (IF i \in positions THEN << items[i] >> ELSE <<>>)
         \o restrictedTo(items, positions, i + 1)

firstOccurrences(items) ==
    restrictedTo(items, {i \in 1..Len(items) : isFirstOccurrence(items, i)}, 1)

\* C5: for every category the result of the deduplication is the sequence
\* of the sources' items, concatenated in list order, restricted to the
\* first occurrence of each content hash (of five characters or more): the
\* survivor is the item of the earliest source and the order is first-seen.
C5_FirstSeenOrder ==
    pc = "done" =>
        \A k \in ArrayKeys :
            /\ merged[k].array = concatenated(responses, k)
            /\ deduped[k].array = firstOccurrences(concatenated(responses, k))

\* C5 witness: two different sources supplied different items with one
\* content hash, the earlier one survived, and other items follow it.
C5_Witness ==
    /\ pc = "done"
    /\ Len(responses) >= 2
    /\ responses[1] # responses[2]
    /\ \E k \in ArrayKeys :
          /\ isEnvelope(responses[1]) /\ isEnvelope(responses[2])
          /\ Len(deduped[k].array) >= 3
          /\ \E i \in 1..Len(responses[1].content[k].array) :
                \E j \in 1..Len(responses[2].content[k].array) :
                    LET a == responses[1].content[k].array[i]
                        b == responses[2].content[k].array[j]
                    IN  /\ a # b
                        /\ generateContentHash(a) = generateContentHash(b)
                        /\ \E n \in 1..Len(deduped[k].array) : deduped[k].array[n] = a
                        /\ \A n \in 1..Len(deduped[k].array) : deduped[k].array[n] # b

\* The original reading of C6: every item of every category sequence of
\* the final document has a content hash of five characters or more.
C6_Original ==
    Returned =>
        \A k \in ArrayKeys :
            \A i \in 1..Len(finalItems(k)) :
                Len(generateContentHash(finalItems(k)[i])) >= MinHashLength

\* C6: no item with a content hash shorter than five characters survives
\* the deduplication, and every item of every final category sequence
\* other than the combined hotspot group has a hash of five or more.
C6_ShortHashDropped ==
    Returned =>
        /\ \A k \in ArrayKeys :
              \A i \in 1..Len(deduped[k].array) :
                  Len(generateContentHash(deduped[k].array[i])) >= MinHashLength
        /\ \A k \in ArrayKeys \ {"hotspots"} :
              \A i \in 1..Len(finalItems(k)) :
                  Len(generateContentHash(finalItems(k)[i])) >= MinHashLength

\* C6 witness: a source supplied an item with a hash of one to four
\* characters and an item with an empty hash; their categories end up
\* with other items, or empty.
C6_Witness ==
    /\ Returned
    /\ \E k \in ArrayKeys :
          /\ \E i \in 1..Len(merged[k].array) :
                Len(generateContentHash(merged[k].array[i])) \in 1..(MinHashLength - 1)
          /\ Len(finalItems(k)) >= 1
    /\ \E k \in ArrayKeys :
          /\ \E i \in 1..Len(merged[k].array) :
                generateContentHash(merged[k].array[i]) = <<>>
          /\ Len(deduped[k].array) < Len(merged[k].array)

\* C7: the deduplication is idempotent: applied to the sequence it
\* produced, it gives that sequence back.
C7_DedupIdempotent ==
    pc = "done" =>
        \A k \in ArrayKeys : dedupItems(deduped[k].array) = deduped[k].array

\* C7 witness: the deduplication removed items of a category and kept
\* two or more.
C7_Witness ==
    /\ pc = "done"
    /\ \E k \in ArrayKeys :
          /\ Len(deduped[k].array) >= 2
          /\ Len(deduped[k].array) < Len(merged[k].array)
          /\ hasSharedHash(merged[k].array)

\* The primary text of an item: the first non-empty of its content,
\* question, title, description and label
primaryText(item) ==
    IF item.content # <<>> THEN item.content
    ELSE IF item.question # <<>> THEN item.question
    ELSE IF item.title # <<>> THEN item.title
    ELSE IF item.description # <<>> THEN item.description
    ELSE item.label

\* Two texts longer than 200 characters, equal in the first 200, different
differOnlyBeyondWindow(a, b) ==
    /\ Len(a) > HashWindow /\ Len(b) > HashWindow
    /\ SubSeq(a, 1, HashWindow) = SubSeq(b, 1, HashWindow)
    /\ a # b

\* The item is in the final sequence of the category
survives(k, item) == \E n \in 1..Len(finalItems(k)) : finalItems(k)[n] = item

\* The window applied to the text of a category's items
windowOf(k) ==
    IF k = "textBlocks" THEN TextWindow
    ELSE IF k = "knowledgeChecks" THEN QuestionWindow
    ELSE HashWindow

\* No earlier item of the sequence has the text of item i within n characters
firstWithin(items, i, n) ==
    \A h \in 1..(i - 1) :
        SubSeq(primaryText(items[h]), 1, Min(n, Len(primaryText(items[h]))))
          # SubSeq(primaryText(items[i]), 1, Min(n, Len(primaryText(items[i]))))

\* An item whose text can be compared: no points array, a primary text of
\* five characters or more, and for a text block that text is its content
hasText(k, item) ==
    /\ ~item.hasPoints
    /\ Len(primaryText(item)) >= MinHashLength
    /\ (k = "textBlocks" => item.content # <<>>)

\* The original reading of C8, for texts of five characters or more: in
\* every category, of two items whose primary text differs only after the
\* first 200 characters exactly the earlier one survives, and two items
\* whose primary text differs within the category's window both survive.
C8_Original ==
    Returned =>
        \A k \in ArrayKeys :
            LET items == merged[k].array
            IN  \A i, j \in 1..Len(items) :
                    (i < j /\ hasText(k, items[i]) /\ hasText(k, items[j])) =>
                        /\ (/\ differOnlyBeyondWindow(primaryText(items[i]),
                                                      primaryText(items[j]))
                            /\ firstWithin(items, i, windowOf(k)))
                              => (survives(k, items[i]) /\ ~survives(k, items[j]))
                        /\ (/\ firstWithin(items, i, windowOf(k))
                            /\ firstWithin(items, j, windowOf(k)))
                              => (survives(k, items[i]) /\ survives(k, items[j]))

\* The categories whose items no later pass drops for another reason
PlainKeys == ArrayKeys \ {"hotspots", "knowledgeChecks", "lists"}

\* C8: of two items of a category whose primary text differs only after
\* the first 200 characters the later one never survives, and the earlier
\* one survives in the categories other than knowledgeChecks, hotspots and
\* lists when no item before it has its text within the category's window;
\* in those categories two items with texts of five characters or more
\* that are each the first with their text within the window (100
\* characters for textBlocks, 200 otherwise) both survive.
C8_TruncationWindow ==
    Returned =>
        \A k \in ArrayKeys :
            LET items == merged[k].array
            IN  \A i, j \in 1..Len(items) :
                    (i < j /\ hasText(k, items[i]) /\ hasText(k, items[j])) =>
                        /\ (/\ differOnlyBeyondWindow(primaryText(items[i]),
                                                      primaryText(items[j]))
                            /\ firstWithin(items, i, HashWindow))
                              => ~survives(k, items[j])
                        /\ (/\ k \in PlainKeys
                            /\ differOnlyBeyondWindow(primaryText(items[i]),
                                                      primaryText(items[j]))
                            /\ firstWithin(items, i, windowOf(k)))
                              => survives(k, items[i])
                        /\ (/\ k \in PlainKeys
                            /\ firstWithin(items, i, windowOf(k))
                            /\ firstWithin(items, j, windowOf(k)))
                              => (survives(k, items[i]) /\ survives(k, items[j]))

\* C8 witness: one category received two 250-character texts equal in
\* their first 200 characters, of which the earlier survived and the later
\* did not, and two shorter texts that both survived.
C8_Witness ==
    /\ Returned
    /\ \E k \in PlainKeys \ {"textBlocks"} :
          LET items == merged[k].array
          IN  /\ \E i, j \in 1..Len(items) :
                    /\ i < j
                    /\ Len(primaryText(items[i])) = 250
                    /\ differOnlyBeyondWindow(primaryText(items[i]), primaryText(items[j]))
                    /\ survives(k, items[i]) /\ ~survives(k, items[j])
              /\ \E i, j \in 1..Len(items) :
                    /\ i < j
                    /\ Len(primaryText(items[i])) < HashWindow
                    /\ Len(primaryText(items[j])) < HashWindow
                    /\ primaryText(items[i]) # primaryText(items[j])
                    /\ survives(k, items[i]) /\ survives(k, items[j])

\* The points of a sequence that are the first with their key, in order
RECURSIVE distinctPoints(_, _)
distinctPoints(points, keys) ==
    IF points = <<>> THEN <<>>
    ELSE IF meaningfulContent(Head(points)) \in keys
    THEN distinctPoints(Tail(points), keys)
    ELSE << Head(points) >>
         \o distinctPoints(Tail(points), keys \cup {meaningfulContent(Head(points))})

\* C9: the hotspot collapse keeps every distinct point: the combined group
\* holds, in first-seen order and indexed from 0, each point of the source
\* groups whose key (title, "|", first 100 characters of description or
\* else rawLabel) no earlier point has; groups of m and n points sharing k
\* give m+n-k points.
C9_EveryDistinctPointKept ==
    Returned =>
        LET expected == distinctPoints(allPointsOf(concatenated(responses, "hotspots")), {})
        IN  IF expected = <<>> THEN finalItems("hotspots") = <<>>
            ELSE /\ Len(finalItems("hotspots")) = 1
                 /\ finalItems("hotspots")[1].points =
                        [i \in 1..Len(expected) |-> [expected[i] EXCEPT !.index = i - 1]]

\* The entries of the list that are neither absent nor failed
withoutAbsentAndFailed(rs) == SelectSeq(rs, LAMBDA r : ~r.absent /\ r.success # "false")

isBareMetadata(r) ==
    /\ ~r.absent /\ r.success = "undefined" /\ ~r.hasData
    /\ \E f \in MetadataFields : r.top[f] # <<>>

\* The metadata after the merge loop when every bare metadata entry is
\* merged field by field and every other entry as the loop merges it
RECURSIVE metadataWithEveryBareEntry(_, _)
metadataWithEveryBareEntry(acc, rs) ==
    IF rs = <<>> THEN acc.metadata
    ELSE metadataWithEveryBareEntry(
             IF isBareMetadata(Head(rs))
             THEN [acc EXCEPT !.metadata =
                      [k \in MetaKeys |->
                          IF Head(rs).top[k] # <<>> /\ acc.metadata[k] = <<>>
                          THEN Head(rs).top[k] ELSE acc.metadata[k]]]
             ELSE mergeResponse(acc, Head(rs)),
             Tail(rs))

\* C11: every bare metadata-shaped entry of the list (no envelope, any of
\* url, course, lesson, path non-empty) is merged as metadata: each of its
\* non-empty fields is copied where the combined field is still empty,
\* whichever fields are the non-empty ones.
C11_BareMetadataMerged ==
    pc = "done" =>
        combined.metadata =
            metadataWithEveryBareEntry(
                [metadata |-> initialMetadata, content |-> initialContent], responses)

\* The content after the merge loop when a source value is assigned only
\* where the accumulator holds no value yet, and arrays are appended
firstValueKept(acc, src) ==
    IF src.kind = "none" THEN acc
    ELSE IF acc.kind = "array" /\ src.kind = "array"
         THEN ArrayOf(acc.array \o src.array)
    ELSE IF truthy(src) /\ ~truthy(acc) THEN src
    ELSE acc

RECURSIVE contentWithFirstValueKept(_, _)
contentWithFirstValueKept(acc, rs) ==
    IF rs = <<>> THEN acc
    ELSE contentWithFirstValueKept(
             IF isEnvelope(Head(rs)) /\ Head(rs).hasContent
             THEN [k \in ContentKeys |-> firstValueKept(acc[k], Head(rs).content[k])]
             ELSE acc,
             Tail(rs))

\* C12: a value that is not a sequence, such as rawText, is assigned from
\* a source only when the accumulator holds no value yet for the key: the
\* first non-empty rawText stays, and no source replaces a sequence the
\* accumulator holds.
C12_FirstValueKept ==
    pc = "done" => merged = contentWithFirstValueKept(initialContent, responses)

\* C13: every returned document has the keys metadata, content and
\* statistics; content holds an array under each of the ten category keys
\* and a string under rawText; statistics holds one integer per category
\* key and totalItems.
C13_DocumentShape ==
    Returned =>
        /\ {"metadata", "content", "statistics"} \subseteq DOMAIN combined
        /\ DOMAIN combined.content = ContentKeys
        /\ \A k \in ArrayKeys : combined.content[k].kind = "array"
        /\ combined.content["rawText"].kind = "string"
        /\ DOMAIN combined.statistics = ArrayKeys \cup {"totalItems"}
        /\ \A k \in DOMAIN combined.statistics : combined.statistics[k] \in Nat

\* C14: whatever the entries of the list carry or lack, combineResults
\* returns a document: it never throws.
C14_NeverThrows == pc = "done" => ~combined.threw

(* --------------------------- scrapeContent: claims --------------------- *)

\* scrapeContent has run to its end through the combineResults call, and
\* the message it showed is still in the message area
ScrapeShown ==
    step = "idle" /\ pc = "done" /\ message \in {"success", "info", "error"}

\* A result variable that brings no item: null, a failure response, or an
\* object whose content has no item in any category
yieldsNoItem(r) ==
    ~(isEnvelope(r) /\ r.hasContent)
    \/ \A k \in ArrayKeys : lengthOf(r.content[k]) = 0

\* The source calls that have rejected in this scrape
rejectedCalls == { settled[i].call : i \in { n \in 1..Len(settled) : settled[n].rejected } }

\* C15: when every source fails or yields nothing the scrape ends with a
\* document whose categories are all empty and whose totalItems is 0, and
\* the popup shows the "No interactive content found" information, not the
\* error; the success message is shown exactly when totalItems > 0.
C15_NothingFoundIsInformational ==
    ScrapeShown =>
        /\ (\A i \in 1..Len(SourceCalls) : yieldsNoItem(locals[SourceCalls[i]])) =>
              /\ ~currentData.isNull
              /\ \A k \in ArrayKeys : finalItems(k) = <<>>
              /\ currentData.document = combined
              /\ currentData.document.statistics.totalItems = 0
              /\ message = "info"
        /\ message = "success" <=>
              (~combined.threw /\ currentData.document = combined
                 /\ currentData.document.statistics.totalItems > 0)

\* C15 witness: all five source calls rejected and the popup shows the
\* information.
C15_Witness ==
    /\ ScrapeShown
    /\ Len(settled) = Len(SourceCalls)
    /\ \A i \in 1..Len(settled) : settled[i].rejected
    /\ message = "info"
    /\ ~currentData.isNull
    /\ currentData.document.statistics.totalItems = 0

\* The entries of a list that are objects
presentOnly(rs) == SelectSeq(rs, LAMBDA r : ~r.absent)

\* C16: whichever of the five source calls reject, every other source call
\* is still made, the scrape ends through combineResults and not through
\* the error message, each rejected call is handed to combineResults as an
\* absent entry and each resolved call as its result, and the results of
\* the calls that succeeded are merged.
C16_SourceFailureNotFatal ==
    (step = "idle" /\ Len(settled) > 0) =>
        /\ { settled[i].call : i \in 1..Len(settled) }
              = { SourceCalls[i] : i \in 1..Len(SourceCalls) }
        /\ Len(settled) = Len(SourceCalls)
        /\ pc = "done" /\ ~combined.threw
        /\ currentData = DataOf(combined)
        /\ message # "error"
        /\ Len(responses) = Len(SourceCalls)
        /\ \A s \in rejectedCalls :
              \E i \in 1..Len(responses) : CombineArguments[i] = s /\ responses[i].absent
        /\ \A i \in 1..Len(responses) :
              CombineArguments[i] \notin rejectedCalls =>
                  /\ responses[i] \in ResolvesWith(CombineArguments[i])
                  /\ responses[i] = locals[CombineArguments[i]]
        /\ \A k \in ArrayKeys :
              merged[k] = ArrayOf(concatenated(presentOnly(responses), k))

\* C16 witness: the second and the fourth call rejected, the others
\* resolved, and the document holds items of the calls that resolved.
C16_Witness ==
    /\ step = "idle" /\ pc = "done"
    /\ rejectedCalls = {"iframeResponse", "mainFrameMetadata"}
    /\ Len(finalItems("textBlocks")) > 0
    /\ Len(finalItems("hotspots")) = 1
    /\ combined.metadata.lesson # <<>>
    /\ currentData = DataOf(combined)

\* The source calls made so far in this scrape: the ones that settled and
\* the one scrapeContent is awaiting
issuedCalls ==
    { settled[i].call : i \in 1..Len(settled) }
    \cup { SourceCalls[i] : i \in { n \in 1..Len(SourceCalls) : SourceCalls[n] = step } }

\* C17: the source calls of a scrape are issued concurrently and none
\* waits for another: while a source call is outstanding, however long,
\* the other source calls of the scrape have been issued too.
C17_CallsIssuedConcurrently ==
    (\E i \in 1..Len(SourceCalls) : step = SourceCalls[i]) =>
        issuedCalls = { SourceCalls[i] : i \in 1..Len(SourceCalls) }

\* The results in the priority order: main-page message, iframe message,
\* all-frames execution, injected script, main-frame metadata
inPriorityOrder(ls) ==
    << ls["mainResponse"], ls["iframeResponse"], ls["allFramesResponse"],
       ls["injectedResponse"], ls["mainFrameMetadata"] >>

\* C18: combineResults is handed the results in the fixed priority order
\* whatever the order in which the calls completed, so content, metadata
\* (scrapedAt aside) and statistics depend on the returned values only.
C18_FixedPriorityOrder ==
    (step = "idle" /\ pc = "done") =>
        LET expected == combineResults(inPriorityOrder(locals))
        IN  /\ responses = inPriorityOrder(locals)
            /\ combined.content = expected.content
            /\ combined.statistics = expected.statistics
            /\ \A f \in MetaKeys \ {"scrapedAt"} :
                  combined.metadata[f] = expected.metadata[f]

\* C18 witness: the metadata call completed before the injected script,
\* both with a result, and the injected result stands before the metadata
\* in the list handed over.
C18_Witness ==
    /\ step = "idle" /\ pc = "done"
    /\ Len(settled) = 5
    /\ settled[4] = [call |-> "mainFrameMetadata", rejected |-> FALSE]
    /\ settled[5] = [call |-> "injectedResponse", rejected |-> FALSE]
    /\ responses[4] = InjectedResponse
    /\ responses[5] = PlainMetadata2
    /\ combined.metadata.path # <<>>
    /\ combined.statistics.totalItems > 0

\* A document with all its parts: returned, not thrown, and with the
\* statistics of its content
isWholeDocument(document) ==
    /\ ~document.threw
    /\ \A k \in ArrayKeys : document.content[k].kind = "array"
    /\ document.statistics = statisticsOf(document.content)

\* C19: currentData is always null or a whole combineResults output; it
\* changes only in the step that ends a scrape, after all five source calls
\* have settled, to the document combineResults returned for the five
\* results; a scrape that ends in the error message leaves it as it was;
\* and copyToClipboard, also while a scrape is in flight, writes the
\* document currentData holds or reports that there is no data.
C19_NoPartialDocument ==
    /\ [](currentData.isNull \/ isWholeDocument(currentData.document))
    /\ [][/\ currentData' # currentData =>
                /\ step = SourceCalls[Len(SourceCalls)] /\ step' = "idle"
                /\ Len(settled') = Len(SourceCalls)
                /\ Len(responses') = Len(SourceCalls)
                /\ pc' = "done"
                /\ combined' = combineResults(inPriorityOrder(locals'))
                /\ currentData' = DataOf(combined')
          /\ (step # "idle" /\ step' = "idle" /\ message' = "error") =>
                currentData' = currentData
          /\ (\E written \in BOOLEAN : CopyToClipboard(written)) =>
                /\ currentData' = currentData
                /\ currentData.isNull => (message' = "nodata" /\ clipboard' = clipboard)
          /\ clipboard' # clipboard =>
                /\ ~currentData.isNull
                /\ clipboard'.text = stringify(currentData.document)
       ]_vars

\* C19 witness: a second scrape is awaiting a source call, and the copy
\* made since it began wrote the document of the first scrape.
C19_Witness ==
    /\ \E i \in 1..Len(SourceCalls) : step = SourceCalls[i]
    /\ Len(settled) > 0
    /\ ~currentData.isNull
    /\ currentData.document.statistics.totalItems > 0
    /\ message = "copied"
    /\ clipboard.written
    /\ clipboard.text = stringify(currentData.document)

(* ------------------------ knowledge checks: claims --------------------- *)

\* C20: in a returned document no knowledge check has a question that,
\* lowercased, contains an entry of the system-message list, also when the
\* source did not filter at capture time, and no two knowledge checks have
\* the same first 100 characters of question.
C20_NoSystemMessageNoSharedQuestion ==
    Returned =>
        LET kcs == finalItems("knowledgeChecks")
        IN  /\ \A i \in 1..Len(kcs) :
                  \A n \in 1..Len(FALSE_POSITIVE_KC) :
                      ~includes(toLowerCase(kcs[i].question), FALSE_POSITIVE_KC[n])
            /\ \A i, j \in 1..Len(kcs) :
                  i # j => substring(kcs[i].question, QuestionWindow)
                              # substring(kcs[j].question, QuestionWindow)

\* C20 witness: the sources supplied a question with a system message and
\* two questions that the deduplication kept and that share their first
\* 100 characters; the document still holds questions.
C20_Witness ==
    /\ Returned
    /\ Len(finalItems("knowledgeChecks")) >= 2
    /\ \E i \in 1..Len(deduped["knowledgeChecks"].array) :
          isFalsePositive(deduped["knowledgeChecks"].array[i].question)
    /\ \E i, j \in 1..Len(deduped["knowledgeChecks"].array) :
          /\ i # j
          /\ substring(deduped["knowledgeChecks"].array[i].question, QuestionWindow)
               = substring(deduped["knowledgeChecks"].array[j].question, QuestionWindow)
          /\ ~isFalsePositive(deduped["knowledgeChecks"].array[i].question)

(* ----------------------- category passes: claims ----------------------- *)

\* The key of a text block and of a list in the passes after the
\* deduplication
textKey(block) == substring(block.content, TextWindow)
listKey(list) == substring(join(list.items, <<"|">>), ListWindow)

\* C21: in a returned document no two text blocks have the same first 100
\* characters of content and no two lists the same first 150 characters of
\* their joined items; of the items the deduplication kept, the first with
\* each key in arrival order is the one that stays.
C21_ExtraPassesKeepFirst ==
    Returned =>
        LET blocks == deduped["textBlocks"].array
            lists == deduped["lists"].array
        IN  /\ \A i, j \in 1..Len(finalItems("textBlocks")) :
                  i # j => textKey(finalItems("textBlocks")[i])
                              # textKey(finalItems("textBlocks")[j])
            /\ \A i, j \in 1..Len(finalItems("lists")) :
                  i # j => listKey(finalItems("lists")[i]) # listKey(finalItems("lists")[j])
            /\ finalItems("textBlocks") =
                  restrictedTo(blocks,
                      {i \in 1..Len(blocks) :
                          \A h \in 1..(i - 1) : textKey(blocks[h]) # textKey(blocks[i])}, 1)
            /\ finalItems("lists") =
                  restrictedTo(lists,
                      {i \in 1..Len(lists) :
                          \A h \in 1..(i - 1) : listKey(lists[h]) # listKey(lists[i])}, 1)

\* C21 witness: the deduplication kept two text blocks with different
\* content hashes and one 100-character key, and two lists with different
\* content hashes and one 150-character key; the first of each stayed.
C21_Witness ==
    /\ Returned
    /\ \E i, j \in 1..Len(deduped["textBlocks"].array) :
          /\ i < j
          /\ textKey(deduped["textBlocks"].array[i]) = textKey(deduped["textBlocks"].array[j])
          /\ survives("textBlocks", deduped["textBlocks"].array[i])
          /\ ~survives("textBlocks", deduped["textBlocks"].array[j])
    /\ \E i, j \in 1..Len(deduped["lists"].array) :
          /\ i < j
          /\ listKey(deduped["lists"].array[i]) = listKey(deduped["lists"].array[j])
          /\ survives("lists", deduped["lists"].array[i])
          /\ ~survives("lists", deduped["lists"].array[j])

(* ------------------------------- C22 ----------------------------------- *)

\* The trimmed lowercase form of a label
labelForm(l) == toLowerCase(trim(l.text))

\* C22: shouldExcludeLabel answers true exactly when the label is null or
\* empty, or its trimmed lowercase form has fewer than 5 characters, or that
\* form contains or equals an entry of the vocabulary; "Next" and
\* "Close Modal" are excluded and "Account Settings" is retained.
C22_ExcludedExactlyWhen ==
    excluded # "unset" =>
        /\ (excluded = "true") <=>
              \/ rawLabel.isNull
              \/ rawLabel.text = <<>>
              \/ Len(labelForm(rawLabel)) < 5
              \/ \E ex \in EXCLUDE_LABELS :
                    \/ labelForm(rawLabel) = ex
                    \/ \E i \in 1..Len(labelForm(rawLabel)) :
                          startsWithAt(labelForm(rawLabel), i, ex)
        /\ rawLabel \in {LabelOf(<<"N", "e", "x", "t">>), LabelOf(<<"C", "l", "o", "s", "e", " ", "M", "o", "d", "a", "l">>)} => excluded = "true"
        /\ rawLabel = LabelOf(<<"A", "c", "c", "o", "u", "n", "t", " ", "S", "e", "t", "t", "i", "n", "g", "s">>) => excluded = "false"

\* "Account Settings" has been handed to shouldExcludeLabel and retained
C22_Witness ==
    /\ rawLabel = LabelOf(<<"A", "c", "c", "o", "u", "n", "t", " ", "S", "e", "t", "t", "i", "n", "g", "s">>)
    /\ excluded = "false"

(* ------------------------------- C23 ----------------------------------- *)

\* Where the earliest sentence-introducing token that has a prefix before
\* it starts in s; 0 when there is none
splitPoint(s) ==
    LET tokens == {i \in 2..Len(s) : \E tok \in SentenceStarters : startsWithAt(s, i, tok)}
    IN  IF tokens = {} THEN 0 ELSE CHOOSE i \in tokens : \A j \in tokens : i <= j

\* The sentence-start condition as the claim words it: the prefix has at
\* most 50 characters
prefixShort(s) == splitPoint(s) > 0 /\ splitPoint(s) - 1 <= 50

\* ... and as the pattern has it: no line break in the prefix either
prefixOnOneLine(s) ==
    /\ prefixShort(s)
    /\ \A j \in 1..(splitPoint(s) - 1) : s[j] \notin LineTerminators

\* The rule the label s is due, the first in order whose condition holds,
\* with `sentence` saying whether the sentence-start condition holds
ruleDue(s, sentence) ==
    IF sentence THEN "sentence"
    ELSE IF boundaryMatch(s).matched THEN "boundary"
    ELSE IF separatorMatch(s).matched THEN "separator"
    ELSE "fallback"

\* What the rule gives for s
resultDue(s, rule) ==
    CASE rule = "sentence" ->
            [title |-> trim(SubSeq(s, 1, splitPoint(s) - 1)),
             description |-> trim(from(s, splitPoint(s)))]
      [] rule = "boundary" ->
            [title |-> trim(boundaryMatch(s).first),
             description |-> trim(boundaryMatch(s).second)]
      [] rule = "separator" ->
            [title |-> trim(separatorMatch(s).first),
             description |-> trim(separatorMatch(s).second)]
      [] OTHER -> [title |-> <<>>, description |-> trim(s)]

\* The examples of the claim
labelExamples ==
    /\ rawLabel = LabelOf(<<"R", "e", "q", "u", "i", "r", "e", " ", "M", "F", "A", "T", "h", "e", " ", "f", "i", "r", "s", "t", " ", "t", "i", "m", "e", " ", "a", " ", "u", "s", "e", "r", " ", "l", "o", "g", "s", " ", "i", "n", ",", " ", "t", "h", "e", "y", " ", "m", "u", "s", "t", " ", "s", "e", "t", " ", "u", "p", " ", "M", "F", "A", ".">>)
          => parsed.title = <<"R", "e", "q", "u", "i", "r", "e", " ", "M", "F", "A">>
    /\ rawLabel = LabelOf(<<"S", "t", "a", "t", "u", "s", ":", " ", "A", "c", "t", "i", "v", "e">>)
          => parsed.title = <<"S", "t", "a", "t", "u", "s">> /\ parsed.description = <<"A", "c", "t", "i", "v", "e">>

\* What parseLabel returned is what the first rule in order gives, with
\* `sentence` saying whether the sentence-start condition holds
parsedAsDue(sentence) ==
    parsed # NotParsed =>
        LET due == resultDue(rawLabel.text, ruleDue(rawLabel.text, sentence))
        IN  /\ parsed.title = due.title
            /\ parsed.description = due.description
            /\ labelExamples

\* C23: parseLabel returns the result of exactly one of its four rules, the
\* first in the order sentence-start, capitalization-boundary, separator,
\* fallback whose condition holds; a label whose earliest sentence-introducing
\* token follows a prefix of 1 to 50 characters without a line break splits
\* there, "Status: Active" gives "Status" and "Active", and a label matching
\* no rule gives an empty title and the trimmed input as description.
C23_FirstRuleInOrder == parsedAsDue(prefixOnOneLine(rawLabel.text))

\* C23 as stated: every label with a sentence-introducing token after a
\* prefix of at most 50 characters splits there
C23_Original == parsedAsDue(prefixShort(rawLabel.text))

\* The example of the sentence-start rule has been parsed
C23_Witness ==
    /\ rawLabel = LabelOf(<<"R", "e", "q", "u", "i", "r", "e", " ", "M", "F", "A", "T", "h", "e", " ", "f", "i", "r", "s", "t", " ", "t", "i", "m", "e", " ", "a", " ", "u", "s", "e", "r", " ", "l", "o", "g", "s", " ", "i", "n", ",", " ", "t", "h", "e", "y", " ", "m", "u", "s", "t", " ", "s", "e", "t", " ", "u", "p", " ", "M", "F", "A", ".">>)
    /\ parsed.rule = "sentence"
    /\ parsed.description = <<"T", "h", "e", " ", "f", "i", "r", "s", "t", " ", "t", "i", "m", "e", " ", "a", " ", "u", "s", "e", "r", " ", "l", "o", "g", "s", " ", "i", "n", ",", " ", "t", "h", "e", "y", " ", "m", "u", "s", "t", " ", "s", "e", "t", " ", "u", "p", " ", "M", "F", "A", ".">>

(* ------------------------------- C24 ----------------------------------- *)

\* The fields the injected script stores under content.metadata
FrameFields == {"course", "lesson", "path"}

\* The value the frames stored for a field: that of the first frame, in
\* frame order, that stored a non-empty one
RECURSIVE storedByFrames(_, _)
storedByFrames(results, f) ==
    IF results = <<>> THEN <<>>
    ELSE IF ~Head(results).isNull /\ Head(results).metadata[f] # <<>>
    THEN Head(results).metadata[f]
    ELSE storedByFrames(Tail(results), f)

\* A result variable sets the metadata field f when it is merged
setsField(r, f) ==
    \/ isPlainMetadata(r) /\ r.top[f] # <<>>
    \/ /\ isEnvelope(r)
       /\ \/ r.hasMetadata /\ r.metadata[f] # <<>>
          \/ r.hasContent /\ r.hasContentMetadata /\ r.contentMetadata[f] # <<>>

\* The result variables handed to combineResults before injectedResponse
beforeInjected == {"mainResponse", "iframeResponse", "allFramesResponse"}

\* C24: the metadata a frame's injected script stored under content.metadata
\* is retrieved: once the scrape has shown its document, every non-empty
\* field the frames stored is the value of that field in the combined
\* metadata, wherever no source merged before the injected one set it.
C24_InjectedMetadataRetrieved ==
    (ScrapeShown /\ ~combined.threw) =>
        \A f \in FrameFields :
            (/\ storedByFrames(injectionResults, f) # <<>>
             /\ \A s \in beforeInjected : ~setsField(locals[s], f))
            => combined.metadata[f] = storedByFrames(injectionResults, f)

(* ------------------------------- C25 ----------------------------------- *)

\* The stored history is newest first: every entry is newer than the next
newestFirst(history) ==
    \A i \in 1..(Len(history) - 1) : history[i] > history[i + 1]

\* The messages answered { success: true } by this step
savedNow == {m \in 1..Len(answers) : answers[m] # "true" /\ answers'[m] = "true"}

\* C25: with saveToHistory messages handled one at a time, the stored
\* history never has more than 50 entries and is ordered newest first; a
\* save puts its entry at the front and keeps the first 50 entries of the
\* result, and nothing else changes the stored history.
C25_HistoryCappedNewestFirst ==
    /\ [](Len(storage) <= 50 /\ newestFirst(storage))
    /\ [][ /\ \A m \in savedNow :
                 storage' = SubSeq(<<m>> \o storage, 1, Min(50, Len(storage) + 1))
           /\ savedNow = {} => storage' = storage ]_vars

\* The third save on a stored history of 48 entries has been answered: the
\* history holds 50 entries and the oldest has gone
C25_Witness ==
    /\ Len(storage) = 50
    /\ storage[1] >= 3
    /\ answers[storage[1]] = "true"
    /\ \A i \in 1..Len(storage) : storage[i] # 0 - 48

(* ------------------------------- C29 ----------------------------------- *)

\* The entry of message m is in the stored history
stored(m) == \E i \in 1..Len(storage) : storage[i] = m

\* C29: with saveToHistory handlers interleaving at their awaits, every
\* save answered { success: true } has its entry in the stored history
\* unless the history is at its cap of 50 entries.
C29_NoEntryLostToRace ==
    \A m \in 1..Len(answers) :
        answers[m] = "true" => (stored(m) \/ Len(storage) = 50)

(* ------------------------------- C26 ----------------------------------- *)

\* The fields the content hash of an item without points is taken from
TextFields == {"content", "question", "title", "description", "label"}

\* The item has a text of at least 5 characters in one of those fields
carriesText(item) == \E f \in TextFields : Len(item[f]) >= 5

\* The categories other than hotspots that hold a sequence in the document
plainCategories == {k \in ArrayKeys \ {"hotspots"} : combined.content[k].kind = "array"}

arraysUnderData(r) ==
    /\ isEnvelope(r) /\ ~r.hasMetadata /\ ~r.hasContent
    /\ \E k \in ContentKeys : lengthOf(r.direct[k]) > 0

\* The list without such responses
withoutArraysUnderData(rs) == SelectSeq(rs, LAMBDA r : ~arraysUnderData(r))

\* Some response of the list holds the item under data.content[k]
underContent(rs, k, item) ==
    \E i \in 1..Len(rs) :
        /\ isEnvelope(rs[i]) /\ rs[i].hasContent /\ rs[i].content[k].kind = "array"
        /\ \E n \in 1..Len(rs[i].content[k].array) : rs[i].content[k].array[n] = item

scraping == step # "idle"

\* C28: when every awaited browser call eventually resolves or rejects, each
\* scrapeContent invocation eventually finishes with the loading indicator
\* removed and the scrape button enabled, with the result message or the
\* error message shown; from its start until then the button stays disabled.
C28_ScrapeFinishes ==
    /\ scraping ~> (~scraping /\ ~loading /\ ~scrapeBtnDisabled
                    /\ message \in {"success", "info", "error"})
    /\ [](scraping => (scrapeBtnDisabled /\ loading))
    /\ []((~scraping /\ settled # <<>>) => (~scrapeBtnDisabled /\ ~loading))

\* A scrape has finished on the result path with the controls restored
C28_Witness ==
    /\ ~scraping
    /\ Len(settled) = Len(SourceCalls)
    /\ message \in {"success", "info"}
    /\ ~loading /\ ~scrapeBtnDisabled

(* ------------------------------- C30 ----------------------------------- *)

\* { success: true, data: { metadata, content } } around a returned document
asOnlySource(document) ==
    << [BlankResponse EXCEPT
           !.success = "true", !.hasData = TRUE,
           !.hasMetadata = TRUE, !.metadata = document.metadata,
           !.hasContent = TRUE, !.content = document.content] >>

\* C30: combineResults is a fixed point on its own output: handed a document
\* it returned as the only successful source, it returns the same content
\* and the same statistics.
C30_FixedPoint ==
    Returned =>
        /\ ~combineResults(asOnlySource(combined)).threw
        /\ combineResults(asOnlySource(combined)).content = combined.content
        /\ combineResults(asOnlySource(combined)).statistics = combined.statistics
====
